---- MODULE Spec2Model ----
(***************************************************************************)
(* A model of greedy-chess: the Board of src/src/board.rs (position, move  *)
(* application, attack oracle, move generation, notation codec, search)    *)
(* and the evaluation strategies of src/src/evaluate.rs.                   *)
(*                                                                         *)
(* Text is a sequence of one-character strings, so that parsing and        *)
(* serializing are computed character by character as the code does.       *)
(***************************************************************************)
EXTENDS Integers, Sequences, FiniteSets, TLC

VARIABLES
    board,           \* the Board
    evaluator_type,  \* the global EVALUATOR_TYPE: 0 = Advanced, 1 = Classic
    status,          \* "running", or "panicked" once a call has aborted the process
    pre,             \* the Board before the last call
    last,            \* the last call on the Board: its input and its result
    answer,          \* the last result of find_best_move on this Board
    score,           \* the last result of evaluate on this Board
    played,          \* the tokens of the game record replayed so far
    free,            \* the number of generated moves played
    toks,            \* the number of other tokens applied
    legal_play,      \* every move applied so far was a generated legal move
    query,           \* the last result of serialize or of the opening book on this Board
    plies            \* the number of moves applied to the Board since Board::new()

vars == <<board, evaluator_type, status, pre, last, answer, score, played, free, toks,
          legal_play, query, plies>>

(***************************************************************************)
(* Piece, Option<Piece>, Option<usize>, Option<Kind>                       *)
(***************************************************************************)
Kinds == {"Pawn", "Knight", "Bishop", "Rook", "Queen", "King"}

Pc(k, c) == [kind |-> k, color |-> c]

\* Option<Piece>::None
None == [kind |-> "None", color |-> "None"]

\* Option<usize>::None (ep_square)
NoSq == 0 - 1

\* Option<Kind>::None (promo)
NoKind == "None"

Squares == 0 .. 63

(***************************************************************************)
(* Index helpers                                                           *)
(***************************************************************************)
idx(file, rank) == rank * 8 + file

file_of(i) == i % 8

rank_of(i) == i \div 8

in_bounds(file, rank) == file >= 0 /\ file < 8 /\ rank >= 0 /\ rank < 8

to_idx(file, rank) == rank * 8 + file

Abs(x) == IF x < 0 THEN 0 - x ELSE x

signum(x) == IF x > 0 THEN 1 ELSE IF x < 0 THEN 0 - 1 ELSE 0

other(c) == IF c = "White" THEN "Black" ELSE "White"

(***************************************************************************)
(* Board::new                                                              *)
(***************************************************************************)
back_rank == <<"Rook", "Knight", "Bishop", "Queen", "King", "Bishop", "Knight", "Rook">>

new_sq ==
    [i \in Squares |->
        IF rank_of(i) = 0 THEN Pc(back_rank[file_of(i) + 1], "White")
        ELSE IF rank_of(i) = 1 THEN Pc("Pawn", "White")
        ELSE IF rank_of(i) = 7 THEN Pc(back_rank[file_of(i) + 1], "Black")
        ELSE IF rank_of(i) = 6 THEN Pc("Pawn", "Black")
        ELSE None]

new ==
    [sq |-> new_sq, side |-> "White",
     castle_wk |-> TRUE, castle_wq |-> TRUE, castle_bk |-> TRUE, castle_bq |-> TRUE,
     ep_square |-> NoSq, halfmove_clock |-> 0, fullmove_number |-> 1]

piece_at(b, i) == b.sq[i]

set_piece(sq, i, p) == [sq EXCEPT ![i] = p]

Mv(from, to, promo, cap, ep, ck, cq) ==
    [from |-> from, to |-> to, promo |-> promo, is_capture |-> cap,
     is_en_passant |-> ep, is_castle_kingside |-> ck, is_castle_queenside |-> cq]

(***************************************************************************)
(* Board::make_move.  make_move_panics is the failure of the expect/unwrap *)
(* calls: no piece on m.from, or (castle) no piece on the king's or the    *)
(* rook's home square.                                                     *)
(***************************************************************************)
castle_squares(color, kingside) ==
    IF color = "White"
    THEN IF kingside THEN <<idx(4, 0), idx(6, 0), idx(7, 0), idx(5, 0)>>
                     ELSE <<idx(4, 0), idx(2, 0), idx(0, 0), idx(3, 0)>>
    ELSE IF kingside THEN <<idx(4, 7), idx(6, 7), idx(7, 7), idx(5, 7)>>
                     ELSE <<idx(4, 7), idx(2, 7), idx(0, 7), idx(3, 7)>>

make_move_panics(b, m) ==
    \/ piece_at(b, m.from) = None
    \/ /\ ~m.is_en_passant
       /\ m.is_castle_kingside \/ m.is_castle_queenside
       /\ LET cs == castle_squares(piece_at(b, m.from).color, m.is_castle_kingside)
          IN  piece_at(b, cs[1]) = None \/ piece_at(b, cs[3]) = None

\* a variant of move_pieces whose en-passant capture empties the square ahead of the target
move_pieces_takes_ahead(b, m, moved) ==
    IF m.is_en_passant
    THEN LET dir == IF moved.color = "White" THEN 1 ELSE 0 - 1
             cap_sq == to_idx(file_of(m.to), rank_of(m.to) + dir)
         IN  set_piece(set_piece(set_piece(b.sq, m.to, moved), m.from, None), cap_sq, None)
    ELSE IF m.is_castle_kingside \/ m.is_castle_queenside
    THEN LET cs == castle_squares(moved.color, m.is_castle_kingside)
             king == piece_at(b, cs[1])
             s1 == set_piece(set_piece(b.sq, cs[1], None), cs[2], king)
             rook == s1[cs[3]]
         IN  set_piece(set_piece(s1, cs[3], None), cs[4], rook)
    ELSE set_piece(set_piece(b.sq, m.to, moved), m.from, None)

\* the three mutually exclusive shapes: en passant, castle, normal
move_pieces(b, m, moved) ==
    IF m.is_en_passant
    THEN LET dir == IF moved.color = "White" THEN 0 - 1 ELSE 1
             cap_sq == to_idx(file_of(m.to), rank_of(m.to) + dir)
         IN  set_piece(set_piece(set_piece(b.sq, m.to, moved), m.from, None), cap_sq, None)
    ELSE IF m.is_castle_kingside \/ m.is_castle_queenside
    THEN LET cs == castle_squares(moved.color, m.is_castle_kingside)
             king == piece_at(b, cs[1])
             s1 == set_piece(set_piece(b.sq, cs[1], None), cs[2], king)
             rook == s1[cs[3]]
         IN  set_piece(set_piece(s1, cs[3], None), cs[4], rook)
    ELSE set_piece(set_piece(b.sq, m.to, moved), m.from, None)

\* a variant of make_move that advances the fullmove number after White's move
make_move_counts_white(b, m) ==
    LET moved0 == piece_at(b, m.from)
        sq1 == move_pieces(b, m, moved0)
        \* promotion rewrites the kind of the moved piece
        moved == IF m.promo # NoKind THEN Pc(m.promo, moved0.color) ELSE moved0
        sq2 == IF m.promo # NoKind THEN set_piece(sq1, m.to, moved) ELSE sq1
        w == moved.color = "White"
        wk == IF w THEN ~(m.from = idx(4, 0)) /\ ~(m.from = idx(7, 0) \/ m.to = idx(7, 0))
                   ELSE ~(m.to = idx(7, 0))
        wq == IF w THEN ~(m.from = idx(4, 0)) /\ ~(m.from = idx(0, 0) \/ m.to = idx(0, 0))
                   ELSE ~(m.to = idx(0, 0))
        bk == IF w THEN ~(m.to = idx(7, 7))
                   ELSE ~(m.from = idx(4, 7)) /\ ~(m.from = idx(7, 7) \/ m.to = idx(7, 7))
        bq == IF w THEN ~(m.to = idx(0, 7))
                   ELSE ~(m.from = idx(4, 7)) /\ ~(m.from = idx(0, 7) \/ m.to = idx(0, 7))
        r_from == rank_of(m.from)
        r_to == rank_of(m.to)
        ep == IF moved.kind = "Pawn" /\ Abs(r_from - r_to) = 2
              THEN to_idx(file_of(m.from), (r_from + r_to) \div 2)
              ELSE NoSq
    IN  [sq |-> sq2,
         side |-> other(b.side),
         castle_wk |-> b.castle_wk /\ wk,
         castle_wq |-> b.castle_wq /\ wq,
         castle_bk |-> b.castle_bk /\ bk,
         castle_bq |-> b.castle_bq /\ bq,
         ep_square |-> ep,
         halfmove_clock |-> IF moved.kind = "Pawn" \/ m.is_capture
                            THEN 0 ELSE b.halfmove_clock + 1,
         fullmove_number |-> IF b.side = "White" THEN b.fullmove_number + 1
                             ELSE b.fullmove_number]

\* a variant of make_move in which a white piece that takes on h8 leaves Black's kingside right
make_move_keeps_taken_right(b, m) ==
    LET moved0 == piece_at(b, m.from)
        sq1 == move_pieces(b, m, moved0)
        \* promotion rewrites the kind of the moved piece
        moved == IF m.promo # NoKind THEN Pc(m.promo, moved0.color) ELSE moved0
        sq2 == IF m.promo # NoKind THEN set_piece(sq1, m.to, moved) ELSE sq1
        w == moved.color = "White"
        wk == IF w THEN ~(m.from = idx(4, 0)) /\ ~(m.from = idx(7, 0) \/ m.to = idx(7, 0))
                   ELSE ~(m.to = idx(7, 0))
        wq == IF w THEN ~(m.from = idx(4, 0)) /\ ~(m.from = idx(0, 0) \/ m.to = idx(0, 0))
                   ELSE ~(m.to = idx(0, 0))
        bk == IF w THEN TRUE
                   ELSE ~(m.from = idx(4, 7)) /\ ~(m.from = idx(7, 7) \/ m.to = idx(7, 7))
        bq == IF w THEN ~(m.to = idx(0, 7))
                   ELSE ~(m.from = idx(4, 7)) /\ ~(m.from = idx(0, 7) \/ m.to = idx(0, 7))
        r_from == rank_of(m.from)
        r_to == rank_of(m.to)
        ep == IF moved.kind = "Pawn" /\ Abs(r_from - r_to) = 2
              THEN to_idx(file_of(m.from), (r_from + r_to) \div 2)
              ELSE NoSq
    IN  [sq |-> sq2,
         side |-> other(b.side),
         castle_wk |-> b.castle_wk /\ wk,
         castle_wq |-> b.castle_wq /\ wq,
         castle_bk |-> b.castle_bk /\ bk,
         castle_bq |-> b.castle_bq /\ bq,
         ep_square |-> ep,
         halfmove_clock |-> IF moved.kind = "Pawn" \/ m.is_capture
                            THEN 0 ELSE b.halfmove_clock + 1,
         fullmove_number |-> IF b.side = "Black" THEN b.fullmove_number + 1
                             ELSE b.fullmove_number]

\* a variant of make_move that sets White's kingside right again on a move that does not touch it
make_move_restores_right(b, m) ==
    LET moved0 == piece_at(b, m.from)
        sq1 == move_pieces(b, m, moved0)
        \* promotion rewrites the kind of the moved piece
        moved == IF m.promo # NoKind THEN Pc(m.promo, moved0.color) ELSE moved0
        sq2 == IF m.promo # NoKind THEN set_piece(sq1, m.to, moved) ELSE sq1
        w == moved.color = "White"
        wk == IF w THEN ~(m.from = idx(4, 0)) /\ ~(m.from = idx(7, 0) \/ m.to = idx(7, 0))
                   ELSE ~(m.to = idx(7, 0))
        wq == IF w THEN ~(m.from = idx(4, 0)) /\ ~(m.from = idx(0, 0) \/ m.to = idx(0, 0))
                   ELSE ~(m.to = idx(0, 0))
        bk == IF w THEN ~(m.to = idx(7, 7))
                   ELSE ~(m.from = idx(4, 7)) /\ ~(m.from = idx(7, 7) \/ m.to = idx(7, 7))
        bq == IF w THEN ~(m.to = idx(0, 7))
                   ELSE ~(m.from = idx(4, 7)) /\ ~(m.from = idx(0, 7) \/ m.to = idx(0, 7))
        r_from == rank_of(m.from)
        r_to == rank_of(m.to)
        ep == IF moved.kind = "Pawn" /\ Abs(r_from - r_to) = 2
              THEN to_idx(file_of(m.from), (r_from + r_to) \div 2)
              ELSE NoSq
    IN  [sq |-> sq2,
         side |-> other(b.side),
         castle_wk |-> wk,
         castle_wq |-> b.castle_wq /\ wq,
         castle_bk |-> b.castle_bk /\ bk,
         castle_bq |-> b.castle_bq /\ bq,
         ep_square |-> ep,
         halfmove_clock |-> IF moved.kind = "Pawn" \/ m.is_capture
                            THEN 0 ELSE b.halfmove_clock + 1,
         fullmove_number |-> IF b.side = "Black" THEN b.fullmove_number + 1
                             ELSE b.fullmove_number]

make_move(b, m) ==
    LET moved0 == piece_at(b, m.from)
        sq1 == move_pieces(b, m, moved0)
        \* promotion rewrites the kind of the moved piece
        moved == IF m.promo # NoKind THEN Pc(m.promo, moved0.color) ELSE moved0
        sq2 == IF m.promo # NoKind THEN set_piece(sq1, m.to, moved) ELSE sq1
        w == moved.color = "White"
        wk == IF w THEN ~(m.from = idx(4, 0)) /\ ~(m.from = idx(7, 0) \/ m.to = idx(7, 0))
                   ELSE ~(m.to = idx(7, 0))
        wq == IF w THEN ~(m.from = idx(4, 0)) /\ ~(m.from = idx(0, 0) \/ m.to = idx(0, 0))
                   ELSE ~(m.to = idx(0, 0))
        bk == IF w THEN ~(m.to = idx(7, 7))
                   ELSE ~(m.from = idx(4, 7)) /\ ~(m.from = idx(7, 7) \/ m.to = idx(7, 7))
        bq == IF w THEN ~(m.to = idx(0, 7))
                   ELSE ~(m.from = idx(4, 7)) /\ ~(m.from = idx(0, 7) \/ m.to = idx(0, 7))
        r_from == rank_of(m.from)
        r_to == rank_of(m.to)
        ep == IF moved.kind = "Pawn" /\ Abs(r_from - r_to) = 2
              THEN to_idx(file_of(m.from), (r_from + r_to) \div 2)
              ELSE NoSq
    IN  [sq |-> sq2,
         side |-> other(b.side),
         castle_wk |-> b.castle_wk /\ wk,
         castle_wq |-> b.castle_wq /\ wq,
         castle_bk |-> b.castle_bk /\ bk,
         castle_bq |-> b.castle_bq /\ bq,
         ep_square |-> ep,
         halfmove_clock |-> IF moved.kind = "Pawn" \/ m.is_capture
                            THEN 0 ELSE b.halfmove_clock + 1,
         fullmove_number |-> IF b.side = "Black" THEN b.fullmove_number + 1
                             ELSE b.fullmove_number]

(***************************************************************************)
(* Attack oracle: line_clear, can_attack, is_square_attacked               *)
(***************************************************************************)
RECURSIVE line_walk(_, _, _, _, _, _)
line_walk(b, to, f, r, df, dr) ==
    IF ~in_bounds(f, r) THEN FALSE
    ELSE IF to_idx(f, r) = to THEN TRUE
    ELSE IF piece_at(b, to_idx(f, r)) # None THEN FALSE
    ELSE line_walk(b, to, f + df, r + dr, df, dr)

line_clear(b, from, to, df, dr) ==
    line_walk(b, to, file_of(from) + df, rank_of(from) + dr, df, dr)

\* the geometry shared by can_attack and naive_can_reach for the non-pawn kinds
piece_geometry(b, kind, from, to) ==
    LET df == file_of(to) - file_of(from)
        dr == rank_of(to) - rank_of(from)
    IN  CASE kind = "Knight" ->
               (Abs(df) = 1 /\ Abs(dr) = 2) \/ (Abs(df) = 2 /\ Abs(dr) = 1)
          [] kind = "King" -> Abs(df) <= 1 /\ Abs(dr) <= 1
          [] kind = "Bishop" ->
               IF Abs(df) # Abs(dr) \/ df = 0 THEN FALSE
               ELSE line_clear(b, from, to, signum(df), signum(dr))
          [] kind = "Rook" ->
               IF ~(df = 0 \/ dr = 0) THEN FALSE
               ELSE IF df = 0 /\ dr = 0 THEN FALSE
               ELSE line_clear(b, from, to, signum(df), signum(dr))
          [] kind = "Queen" ->
               IF ~(df = 0 \/ dr = 0 \/ Abs(df) = Abs(dr)) THEN FALSE
               ELSE line_clear(b, from, to, signum(df), signum(dr))

can_attack(b, from, to) ==
    IF from = to THEN FALSE
    ELSE IF piece_at(b, from) = None THEN FALSE
    ELSE LET piece == piece_at(b, from)
         IN  IF piece.kind = "Pawn"
             THEN LET forward == IF piece.color = "White" THEN 1 ELSE 0 - 1
                  IN  rank_of(to) = rank_of(from) + forward
                      /\ Abs(file_of(to) - file_of(from)) = 1
             ELSE piece_geometry(b, piece.kind, from, to)

is_square_attacked(b, square, by_color) ==
    \E from \in Squares :
        /\ piece_at(b, from) # None
        /\ piece_at(b, from).color = by_color
        /\ can_attack(b, from, square)

\* Option<usize>: the lowest square holding the king of that colour, or NoSq
find_king(b, color) ==
    LET ks == {i \in Squares : piece_at(b, i) = Pc("King", color)}
    IN  IF ks = {} THEN NoSq ELSE CHOOSE i \in ks : \A j \in ks : i <= j

(***************************************************************************)
(* Move generator                                                          *)
(***************************************************************************)
promo_kinds == <<"Queen", "Rook", "Bishop", "Knight">>

quiet(from, to) == Mv(from, to, NoKind, FALSE, FALSE, FALSE, FALSE)

promos(from, to, cap, ep) ==
    [k \in 1 .. 4 |-> Mv(from, to, promo_kinds[k], cap, ep, FALSE, FALSE)]

\* a variant of generate_pawn_moves whose push to the final rank carries no promotion
generate_pawn_moves_pushes_plain(b, from) ==
    LET piece == piece_at(b, from)
        forward == IF piece.color = "White" THEN 1 ELSE 0 - 1
        start_rank == IF piece.color = "White" THEN 1 ELSE 6
        promo_rank == IF piece.color = "White" THEN 7 ELSE 0
        f == file_of(from)
        r == rank_of(from)
        to_r == r + forward
        to == to_idx(f, to_r)
        to2 == to_idx(f, to_r + forward)
        pushes ==
            IF in_bounds(f, to_r) /\ piece_at(b, to) = None
            THEN IF rank_of(to) = promo_rank
                 THEN <<quiet(from, to)>>
                 ELSE <<quiet(from, to)>> \o
                      (IF rank_of(from) = start_rank /\ in_bounds(f, to_r + forward)
                          /\ piece_at(b, to2) = None
                       THEN <<quiet(from, to2)>> ELSE <<>>)
            ELSE <<>>
        \* the diagonal is taken when the square is occupied (by either colour)
        \* or is the en-passant target
        diag(df) ==
            IF in_bounds(f + df, to_r)
            THEN LET t == to_idx(f + df, to_r)
                     is_capture == piece_at(b, t) # None
                     is_ep == ~is_capture /\ t = b.ep_square
                 IN  IF is_capture \/ is_ep
                     THEN IF rank_of(t) = promo_rank
                          THEN promos(from, t, TRUE, is_ep)
                          ELSE <<Mv(from, t, NoKind, TRUE, is_ep, FALSE, FALSE)>>
                     ELSE <<>>
            ELSE <<>>
    IN  pushes \o diag(0 - 1) \o diag(1)

generate_pawn_moves(b, from) ==
    LET piece == piece_at(b, from)
        forward == IF piece.color = "White" THEN 1 ELSE 0 - 1
        start_rank == IF piece.color = "White" THEN 1 ELSE 6
        promo_rank == IF piece.color = "White" THEN 7 ELSE 0
        f == file_of(from)
        r == rank_of(from)
        to_r == r + forward
        to == to_idx(f, to_r)
        to2 == to_idx(f, to_r + forward)
        pushes ==
            IF in_bounds(f, to_r) /\ piece_at(b, to) = None
            THEN IF rank_of(to) = promo_rank
                 THEN promos(from, to, FALSE, FALSE)
                 ELSE <<quiet(from, to)>> \o
                      (IF rank_of(from) = start_rank /\ in_bounds(f, to_r + forward)
                          /\ piece_at(b, to2) = None
                       THEN <<quiet(from, to2)>> ELSE <<>>)
            ELSE <<>>
        \* the diagonal is taken when the square is occupied (by either colour)
        \* or is the en-passant target
        diag(df) ==
            IF in_bounds(f + df, to_r)
            THEN LET t == to_idx(f + df, to_r)
                     is_capture == piece_at(b, t) # None
                     is_ep == ~is_capture /\ t = b.ep_square
                 IN  IF is_capture \/ is_ep
                     THEN IF rank_of(t) = promo_rank
                          THEN promos(from, t, TRUE, is_ep)
                          ELSE <<Mv(from, t, NoKind, TRUE, is_ep, FALSE, FALSE)>>
                     ELSE <<>>
            ELSE <<>>
    IN  pushes \o diag(0 - 1) \o diag(1)

\* a destination of a knight, king or slider: empty, or an enemy piece (capture)
step_move(b, from, to) == Mv(from, to, NoKind, piece_at(b, to) # None, FALSE, FALSE, FALSE)

offset_moves(b, from, offs) ==
    LET f == file_of(from)
        r == rank_of(from)
        ok(o) == /\ in_bounds(f + o[1], r + o[2])
                 /\ LET t == piece_at(b, to_idx(f + o[1], r + o[2]))
                    IN  t = None \/ t.color # b.side
        sel == SelectSeq(offs, ok)
    IN  [k \in 1 .. Len(sel) |-> step_move(b, from, to_idx(f + sel[k][1], r + sel[k][2]))]

knight_offsets ==
    << <<0 - 2, 0 - 1>>, <<0 - 2, 1>>, <<0 - 1, 0 - 2>>, <<0 - 1, 2>>,
       <<1, 0 - 2>>, <<1, 2>>, <<2, 0 - 1>>, <<2, 1>> >>

generate_knight_moves(b, from) == offset_moves(b, from, knight_offsets)

RECURSIVE ray(_, _, _, _, _, _)
ray(b, from, cur_f, cur_r, df, dr) ==
    IF ~in_bounds(cur_f, cur_r) THEN <<>>
    ELSE LET to == to_idx(cur_f, cur_r)
             target == piece_at(b, to)
         IN  IF target # None
             THEN IF target.color # b.side THEN <<step_move(b, from, to)>> ELSE <<>>
             ELSE <<step_move(b, from, to)>> \o ray(b, from, cur_f + df, cur_r + dr, df, dr)

RECURSIVE generate_sliding_moves(_, _, _)
generate_sliding_moves(b, from, directions) ==
    IF directions = <<>> THEN <<>>
    ELSE LET d == Head(directions)
         IN  ray(b, from, file_of(from) + d[1], rank_of(from) + d[2], d[1], d[2])
             \o generate_sliding_moves(b, from, Tail(directions))

diagonals == << <<0 - 1, 0 - 1>>, <<0 - 1, 1>>, <<1, 0 - 1>>, <<1, 1>> >>

orthogonals == << <<0 - 1, 0>>, <<1, 0>>, <<0, 0 - 1>>, <<0, 1>> >>

all_directions ==
    << <<0 - 1, 0 - 1>>, <<0 - 1, 0>>, <<0 - 1, 1>>, <<0, 0 - 1>>,
       <<0, 1>>, <<1, 0 - 1>>, <<1, 0>>, <<1, 1>> >>

generate_bishop_moves(b, from) == generate_sliding_moves(b, from, diagonals)

generate_rook_moves(b, from) == generate_sliding_moves(b, from, orthogonals)

generate_queen_moves(b, from) == generate_sliding_moves(b, from, all_directions)

\* a variant of can_castle_kingside that looks at the king's own square only
can_castle_kingside_unsafe(b, color) ==
    LET rank == IF color = "White" THEN 0 ELSE 7
    IN  /\ piece_at(b, idx(5, rank)) = None
        /\ piece_at(b, idx(6, rank)) = None
        /\ ~is_square_attacked(b, idx(4, rank), other(color))

can_castle_kingside(b, color) ==
    LET rank == IF color = "White" THEN 0 ELSE 7
    IN  /\ piece_at(b, idx(5, rank)) = None
        /\ piece_at(b, idx(6, rank)) = None
        /\ ~is_square_attacked(b, idx(4, rank), other(color))
        /\ ~is_square_attacked(b, idx(5, rank), other(color))
        /\ ~is_square_attacked(b, idx(6, rank), other(color))

can_castle_queenside(b, color) ==
    LET rank == IF color = "White" THEN 0 ELSE 7
    IN  /\ piece_at(b, idx(1, rank)) = None
        /\ piece_at(b, idx(2, rank)) = None
        /\ piece_at(b, idx(3, rank)) = None
        /\ ~is_square_attacked(b, idx(2, rank), other(color))
        /\ ~is_square_attacked(b, idx(3, rank), other(color))
        /\ ~is_square_attacked(b, idx(4, rank), other(color))

generate_king_moves(b, from) ==
    LET rank == IF b.side = "White" THEN 0 ELSE 7
        right_k == IF b.side = "White" THEN b.castle_wk ELSE b.castle_bk
        right_q == IF b.side = "White" THEN b.castle_wq ELSE b.castle_bq
    IN  offset_moves(b, from, all_directions)
        \o (IF right_k /\ can_castle_kingside(b, b.side)
            THEN <<Mv(from, idx(6, rank), NoKind, FALSE, FALSE, TRUE, FALSE)>> ELSE <<>>)
        \o (IF right_q /\ can_castle_queenside(b, b.side)
            THEN <<Mv(from, idx(2, rank), NoKind, FALSE, FALSE, FALSE, TRUE)>> ELSE <<>>)

piece_moves(b, from) ==
    LET piece == piece_at(b, from)
    IN  IF piece = None \/ piece.color # b.side THEN <<>>
        ELSE CASE piece.kind = "Pawn" -> generate_pawn_moves(b, from)
               [] piece.kind = "Knight" -> generate_knight_moves(b, from)
               [] piece.kind = "Bishop" -> generate_bishop_moves(b, from)
               [] piece.kind = "Rook" -> generate_rook_moves(b, from)
               [] piece.kind = "Queen" -> generate_queen_moves(b, from)
               [] piece.kind = "King" -> generate_king_moves(b, from)

\* the moves of the pieces on the squares from .. to, in the order of the scan; the
\* range is halved so that the scan of 64 squares nests 6 deep
RECURSIVE pseudo_from(_, _, _)
pseudo_from(b, from, to) ==
    IF from = to THEN piece_moves(b, from)
    ELSE pseudo_from(b, from, (from + to) \div 2)
         \o pseudo_from(b, (from + to) \div 2 + 1, to)

\* the moves collected before the legality filter, in generation order
pseudo_legal_moves(b) == pseudo_from(b, 0, 63)

\* a variant of is_legal_move without the attack test
is_legal_move_unfiltered(b, m) == find_king(make_move(b, m), b.side) # NoSq

is_legal_move(b, m) ==
    LET current_side == b.side
        temp_board == make_move(b, m)
        king_square == find_king(temp_board, current_side)
    IN  IF king_square # NoSq
        THEN ~is_square_attacked(temp_board, king_square, other(current_side))
        ELSE FALSE

generate_legal_moves(b) ==
    LET legal(m) == is_legal_move(b, m)
    IN  SelectSeq(pseudo_legal_moves(b), legal)

is_checkmate(b) ==
    LET king_square == find_king(b, b.side)
    IN  IF king_square # NoSq
        THEN is_square_attacked(b, king_square, other(b.side))
             /\ generate_legal_moves(b) = <<>>
        ELSE FALSE

is_stalemate(b) ==
    LET king_square == find_king(b, b.side)
    IN  IF king_square # NoSq
        THEN ~is_square_attacked(b, king_square, other(b.side))
             /\ generate_legal_moves(b) = <<>>
        ELSE FALSE

is_game_over(b) == is_checkmate(b) \/ is_stalemate(b)

(***************************************************************************)
(* Text: a token is a sequence of one-character strings                    *)
(***************************************************************************)
file_chars == <<"a", "b", "c", "d", "e", "f", "g", "h">>

rank_chars == <<"1", "2", "3", "4", "5", "6", "7", "8">>

is_file_char(c) == \E i \in 1 .. 8 : file_chars[i] = c

is_rank_char(c) == \E i \in 1 .. 8 : rank_chars[i] = c

\* c - b'a' and c - b'1'
file_index(c) == (CHOOSE i \in 1 .. 8 : file_chars[i] = c) - 1

rank_index(c) == (CHOOSE i \in 1 .. 8 : rank_chars[i] = c) - 1

is_whitespace(c) == c \in {" ", "\t", "\n", "\r"}

RECURSIVE trim_start(_)
trim_start(s) ==
    IF s # <<>> /\ is_whitespace(Head(s)) THEN trim_start(Tail(s)) ELSE s

RECURSIVE trim_end(_)
trim_end(s) ==
    IF s # <<>> /\ is_whitespace(s[Len(s)]) THEN trim_end(SubSeq(s, 1, Len(s) - 1)) ELSE s

trim(s) == trim_end(trim_start(s))

\* str::replace(c, "")
remove_char(s, c) == LET keep(x) == x # c IN SelectSeq(s, keep)

RECURSIVE trim_end_matches(_, _)
trim_end_matches(s, cs) ==
    IF s # <<>> /\ s[Len(s)] \in cs
    THEN trim_end_matches(SubSeq(s, 1, Len(s) - 1), cs) ELSE s

contains(s, c) == \E i \in 1 .. Len(s) : s[i] = c

\* str::find: the first position of c (1-based), 0 when absent
find(s, c) ==
    IF contains(s, c)
    THEN CHOOSE i \in 1 .. Len(s) : s[i] = c /\ \A j \in 1 .. i - 1 : s[j] # c
    ELSE 0

ends_with(s, c) == s # <<>> /\ s[Len(s)] = c

NoMove == Mv(NoSq, NoSq, NoKind, FALSE, FALSE, FALSE, FALSE)

\* Result<Move, String> / Option<Move>; a panic is the third outcome
OkMove(m) == [result |-> "Ok", move |-> m]

ErrMove == [result |-> "Err", move |-> NoMove]

PanicMove == [result |-> "Panic", move |-> NoMove]

(***************************************************************************)
(* Notation codec: parsing                                                 *)
(***************************************************************************)
parse_square(s) ==
    IF Len(s) # 2 THEN NoSq
    ELSE IF ~is_file_char(s[1]) \/ ~is_rank_char(s[2]) THEN NoSq
    ELSE idx(file_index(s[1]), rank_index(s[2]))

build_castle(b, kingside) ==
    LET rank == IF b.side = "White" THEN 0 ELSE 7
    IN  Mv(idx(4, rank), IF kingside THEN idx(6, rank) ELSE idx(2, rank),
           NoKind, FALSE, FALSE, kingside, ~kingside)

uci_promo(c) ==
    CASE c \in {"q", "Q"} -> "Queen"
      [] c \in {"r", "R"} -> "Rook"
      [] c \in {"b", "B"} -> "Bishop"
      [] c \in {"n", "N"} -> "Knight"
      [] OTHER -> NoKind

\* Ok(None) is result "None"; Ok(Some(mv)) is result "Ok"
try_parse_uci_like(b, t) ==
    IF Len(t) < 4 THEN [result |-> "None", move |-> NoMove]
    ELSE IF ~(is_file_char(t[1]) /\ is_rank_char(t[2]))
            \/ ~(is_file_char(t[3]) /\ is_rank_char(t[4]))
    THEN [result |-> "None", move |-> NoMove]
    ELSE LET from == idx(file_index(t[1]), rank_index(t[2]))
             to == idx(file_index(t[3]), rank_index(t[4]))
             promo == IF Len(t) >= 5 THEN uci_promo(t[5]) ELSE NoKind
             occupied == piece_at(b, to) # None
             is_ep == /\ piece_at(b, from) # None
                      /\ piece_at(b, from).kind = "Pawn"
                      /\ ~occupied
                      /\ to = b.ep_square
         IN  OkMove(Mv(from, to, promo, occupied \/ is_ep, is_ep, FALSE, FALSE))

naive_can_reach(b, from, to, is_capture) ==
    IF from = to THEN FALSE
    ELSE IF piece_at(b, from) = None THEN FALSE
    ELSE LET me == piece_at(b, from)
             dst == piece_at(b, to)
         IN  IF dst # None /\ dst.color = me.color THEN FALSE
             ELSE IF me.kind # "Pawn" THEN piece_geometry(b, me.kind, from, to)
             ELSE LET dir == IF me.color = "White" THEN 1 ELSE 0 - 1
                      df == file_of(to) - file_of(from)
                      dr == rank_of(to) - rank_of(from)
                      start_rank == IF me.color = "White" THEN 1 ELSE 6
                  IN  IF is_capture
                      THEN dr = dir /\ Abs(df) = 1
                           /\ (dst # None \/ to = b.ep_square)
                      ELSE \/ df = 0 /\ dr = dir /\ dst = None
                           \/ /\ df = 0 /\ dr = 2 * dir /\ rank_of(from) = start_rank
                              /\ piece_at(b, to_idx(file_of(from), rank_of(from) + dir)) = None
                              /\ dst = None

\* a variant of generate_reach that keeps only the first candidate
generate_reach_first(b, kind, to, is_capture) ==
    LET reach(i) == /\ piece_at(b, i) # None
                    /\ piece_at(b, i).color = b.side
                    /\ piece_at(b, i).kind = kind
                    /\ naive_can_reach(b, i, to, is_capture)
        first(v) == IF v = <<>> THEN v ELSE <<Head(v)>>
    IN  first(SelectSeq([i \in 1 .. 64 |-> i - 1], reach))

\* the candidate source squares, in increasing order
generate_reach(b, kind, to, is_capture) ==
    LET reach(i) == /\ piece_at(b, i) # None
                    /\ piece_at(b, i).color = b.side
                    /\ piece_at(b, i).kind = kind
                    /\ naive_can_reach(b, i, to, is_capture)
    IN  SelectSeq([i \in 1 .. 64 |-> i - 1], reach)

san_promo(c) ==
    CASE c = "Q" -> "Queen"
      [] c = "R" -> "Rook"
      [] c = "B" -> "Bishop"
      [] c = "N" -> "Knight"
      [] OTHER -> NoKind

san_kind(c) ==
    CASE c = "K" -> "King"
      [] c = "Q" -> "Queen"
      [] c = "R" -> "Rook"
      [] c = "B" -> "Bishop"
      [] c = "N" -> "Knight"
      [] OTHER -> "Pawn"

\* the last file letter and the last rank digit of the disambiguation part
RECURSIVE last_index(_, _, _)
last_index(dis, is_file, acc) ==
    IF dis = <<>> THEN acc
    ELSE LET ch == Head(dis)
         IN  IF is_file_char(ch)
             THEN last_index(Tail(dis), is_file, IF is_file THEN file_index(ch) ELSE acc)
             ELSE IF is_rank_char(ch)
             THEN last_index(Tail(dis), is_file, IF is_file THEN acc ELSE rank_index(ch))
             ELSE last_index(Tail(dis), is_file, acc)

parse_san_and_find_move(b, t) ==
    LET found(filtered, to, promo, is_capture, is_ep) ==
            IF filtered = <<>> THEN ErrMove
            ELSE IF Len(filtered) > 1 THEN ErrMove
            ELSE OkMove(Mv(filtered[1], to, promo, is_capture, is_ep, FALSE, FALSE))
        candidates(kind, to, is_capture, dis_file, dis_rank) ==
            LET keep(sq_from) ==
                    /\ dis_file # NoSq => file_of(sq_from) = dis_file
                    /\ dis_rank # NoSq => rank_of(sq_from) = dis_rank
            IN  SelectSeq(generate_reach(b, kind, to, is_capture), keep)
        resolve(kind, to, dis, promo, is_capture) ==
            IF to = NoSq THEN ErrMove
            ELSE found(candidates(kind, to, is_capture,
                                  last_index(dis, TRUE, NoSq), last_index(dis, FALSE, NoSq)),
                       to, promo, is_capture,
                       /\ kind = "Pawn" /\ is_capture
                       /\ piece_at(b, to) = None /\ to = b.ep_square)
        squares(first, kind, rest, promo, is_capture) ==
            IF first \in {"O", "0"} THEN ErrMove
            ELSE IF Len(rest) < 2 THEN ErrMove
            ELSE resolve(kind, parse_square(SubSeq(rest, Len(rest) - 1, Len(rest))),
                         SubSeq(rest, 1, Len(rest) - 2), promo, is_capture)
        piece(first, s_clean, promo, is_capture) ==
            squares(first, san_kind(first),
                    IF san_kind(first) = "Pawn" THEN s_clean ELSE Tail(s_clean),
                    promo, is_capture)
        capture(s_clean, promo, is_capture) ==
            piece(IF s_clean = <<>> THEN " " ELSE Head(s_clean), s_clean, promo, is_capture)
        promotion(s, promo) == capture(remove_char(s, "x"), promo, contains(s, "x"))
        suffix(s0, eq) ==
            IF eq # 0 /\ eq + 1 > Len(s0) THEN PanicMove  \* s.as_bytes()[eq + 1]
            ELSE IF eq # 0 THEN promotion(SubSeq(s0, 1, eq - 1), san_promo(s0[eq + 1]))
            ELSE promotion(s0, NoKind)
        stripped(s0) == suffix(s0, find(s0, "="))
    IN  stripped(trim_end_matches(remove_char(remove_char(t, "+"), "#"), {"!", "?"}))

\* the Move a token denotes: result "Skip" for a decorative token, "Ok" with the
\* move handed to make_move, "Err", or "Panic"
parse_token(b, token) ==
    LET skip == [result |-> "Skip", move |-> NoMove]
        move(t, uci) == IF uci.result = "Ok" THEN uci ELSE parse_san_and_find_move(b, t)
        trimmed(t) ==
            IF t = <<>> THEN skip
            ELSE IF t \in {<<"1", "-", "0">>, <<"0", "-", "1">>,
                           <<"1", "/", "2", "-", "1", "/", "2">>, <<"*">>}
            THEN skip
            ELSE IF ends_with(t, ".") THEN skip
            ELSE IF t \in {<<"O", "-", "O">>, <<"0", "-", "0">>}
            THEN OkMove(build_castle(b, TRUE))
            ELSE IF t \in {<<"O", "-", "O", "-", "O">>, <<"0", "-", "0", "-", "0">>}
            THEN OkMove(build_castle(b, FALSE))
            ELSE move(t, try_parse_uci_like(b, t))
    IN  trimmed(trim(token))

\* a variant of parse_and_play_token that hands the turn over before it parses
parse_and_play_token_flips_side(b, token) ==
    LET play(p) ==
            IF p.result = "Skip" THEN [result |-> "Ok", board |-> b, move |-> NoMove]
            ELSE IF p.result = "Ok"
            THEN IF make_move_panics(b, p.move)
                 THEN [result |-> "Panic", board |-> b, move |-> p.move]
                 ELSE [result |-> "Ok", board |-> make_move(b, p.move), move |-> p.move]
            ELSE [result |-> p.result, board |-> [b EXCEPT !.side = other(b.side)],
                  move |-> NoMove]
    IN  play(parse_token(b, token))

\* a variant of parse_and_play_token that hands the turn over on a decorative token
parse_and_play_token_skips_turn(b, token) ==
    LET play(p) ==
            IF p.result = "Skip"
            THEN [result |-> "Ok", board |-> [b EXCEPT !.side = other(b.side)],
                  move |-> NoMove]
            ELSE IF p.result = "Ok"
            THEN IF make_move_panics(b, p.move)
                 THEN [result |-> "Panic", board |-> b, move |-> p.move]
                 ELSE [result |-> "Ok", board |-> make_move(b, p.move), move |-> p.move]
            ELSE [result |-> p.result, board |-> b, move |-> NoMove]
    IN  play(parse_token(b, token))

\* Result<(), String> with the Board after the call; "Panic" when the call aborts
parse_and_play_token(b, token) ==
    LET play(p) ==
            IF p.result = "Skip" THEN [result |-> "Ok", board |-> b, move |-> NoMove]
            ELSE IF p.result = "Ok"
            THEN IF make_move_panics(b, p.move)
                 THEN [result |-> "Panic", board |-> b, move |-> p.move]
                 ELSE [result |-> "Ok", board |-> make_move(b, p.move), move |-> p.move]
            ELSE [result |-> p.result, board |-> b, move |-> NoMove]
    IN  play(parse_token(b, token))

(***************************************************************************)
(* Notation codec: serializing a move to SAN                               *)
(***************************************************************************)
kind_letter(k) ==
    CASE k = "King" -> "K"
      [] k = "Queen" -> "Q"
      [] k = "Rook" -> "R"
      [] k = "Bishop" -> "B"
      [] k = "Knight" -> "N"

move_to_san(b, m) ==
    LET dest == <<file_chars[file_of(m.to) + 1], rank_chars[rank_of(m.to) + 1]>>
        promotion == IF m.promo # NoKind THEN <<"=", kind_letter(m.promo)>> ELSE <<>>
        capture(piece, san) ==
            IF m.is_capture
            THEN (IF piece.kind = "Pawn" /\ san = <<>>
                  THEN <<file_chars[file_of(m.from) + 1]>> ELSE <<>>) \o <<"x">>
            ELSE <<>>
        tail(piece, san) == san \o capture(piece, san) \o dest \o promotion
        disamb(similar_moves) ==
            IF similar_moves # <<>>
            THEN IF ~(\E k \in 1 .. Len(similar_moves) :
                         file_of(similar_moves[k].from) = file_of(m.from))
                 THEN <<file_chars[file_of(m.from) + 1]>>
                 ELSE <<rank_chars[rank_of(m.from) + 1]>>
            ELSE <<>>
        san_of(piece) ==
            LET similar(o) == /\ o.to = m.to
                              /\ piece_at(b, o.from).kind = piece.kind
                              /\ o.from # m.from
            IN  tail(piece,
                     (IF piece.kind # "Pawn" THEN <<kind_letter(piece.kind)>> ELSE <<>>)
                     \o disamb(SelectSeq(generate_legal_moves(b), similar)))
    IN  IF m.is_castle_kingside THEN <<"O", "-", "O">>
        ELSE IF m.is_castle_queenside THEN <<"O", "-", "O", "-", "O">>
        ELSE san_of(piece_at(b, m.from))

(***************************************************************************)
(* Board::evaluate (material), used by the search                          *)
(***************************************************************************)
material(kind) ==
    CASE kind = "Pawn" -> 1
      [] kind = "Knight" -> 3
      [] kind = "Bishop" -> 3
      [] kind = "Rook" -> 5
      [] kind = "Queen" -> 9
      [] kind = "King" -> 999

\* the material balance of the squares from .. to; the range is halved as in
\* pseudo_from
RECURSIVE material_from(_, _, _)
material_from(b, from, to) ==
    IF from = to
    THEN LET piece == piece_at(b, from)
         IN  IF piece = None THEN 0
             ELSE IF piece.color = "White" THEN material(piece.kind)
             ELSE 0 - material(piece.kind)
    ELSE material_from(b, from, (from + to) \div 2)
         + material_from(b, (from + to) \div 2 + 1, to)

Board_evaluate(b) == material_from(b, 0, 63)

(***************************************************************************)
(* src/src/evaluate.rs: material values, piece-square tables, strategies   *)
(***************************************************************************)
PAWN_VALUE == 100

KNIGHT_VALUE == 320

BISHOP_VALUE == 330

ROOK_VALUE == 500

QUEEN_VALUE == 900

KING_VALUE == 20000

PAWN_TABLE ==
    << 0, 0, 0, 0, 0, 0, 0, 0,
       50, 50, 50, 50, 50, 50, 50, 50,
       10, 10, 20, 30, 30, 20, 10, 10,
       5, 5, 10, 25, 25, 10, 5, 5,
       0, 0, 0, 20, 20, 0, 0, 0,
       5, 0 - 5, 0 - 10, 0, 0, 0 - 10, 0 - 5, 5,
       5, 10, 10, 0 - 20, 0 - 20, 10, 10, 5,
       0, 0, 0, 0, 0, 0, 0, 0 >>

KNIGHT_TABLE ==
    << 0 - 50, 0 - 40, 0 - 30, 0 - 30, 0 - 30, 0 - 30, 0 - 40, 0 - 50,
       0 - 40, 0 - 20, 0, 0, 0, 0, 0 - 20, 0 - 40,
       0 - 30, 0, 10, 15, 15, 10, 0, 0 - 30,
       0 - 30, 5, 15, 20, 20, 15, 5, 0 - 30,
       0 - 30, 0, 15, 20, 20, 15, 0, 0 - 30,
       0 - 30, 5, 10, 15, 15, 10, 5, 0 - 30,
       0 - 40, 0 - 20, 0, 5, 5, 0, 0 - 20, 0 - 40,
       0 - 50, 0 - 40, 0 - 30, 0 - 30, 0 - 30, 0 - 30, 0 - 40, 0 - 50 >>

BISHOP_TABLE ==
    << 0 - 20, 0 - 10, 0 - 10, 0 - 10, 0 - 10, 0 - 10, 0 - 10, 0 - 20,
       0 - 10, 0, 0, 0, 0, 0, 0, 0 - 10,
       0 - 10, 0, 5, 10, 10, 5, 0, 0 - 10,
       0 - 10, 5, 5, 10, 10, 5, 5, 0 - 10,
       0 - 10, 0, 10, 10, 10, 10, 0, 0 - 10,
       0 - 10, 10, 10, 10, 10, 10, 10, 0 - 10,
       0 - 10, 5, 0, 0, 0, 0, 5, 0 - 10,
       0 - 20, 0 - 10, 0 - 10, 0 - 10, 0 - 10, 0 - 10, 0 - 10, 0 - 20 >>

ROOK_TABLE ==
    << 0, 0, 0, 0, 0, 0, 0, 0,
       5, 10, 10, 10, 10, 10, 10, 5,
       0 - 5, 0, 0, 0, 0, 0, 0, 0 - 5,
       0 - 5, 0, 0, 0, 0, 0, 0, 0 - 5,
       0 - 5, 0, 0, 0, 0, 0, 0, 0 - 5,
       0 - 5, 0, 0, 0, 0, 0, 0, 0 - 5,
       0 - 5, 0, 0, 0, 0, 0, 0, 0 - 5,
       0, 0, 0, 5, 5, 0, 0, 0 >>

QUEEN_TABLE ==
    << 0 - 20, 0 - 10, 0 - 10, 0 - 5, 0 - 5, 0 - 10, 0 - 10, 0 - 20,
       0 - 10, 0, 0, 0, 0, 0, 0, 0 - 10,
       0 - 10, 0, 5, 5, 5, 5, 0, 0 - 10,
       0 - 5, 0, 5, 5, 5, 5, 0, 0 - 5,
       0, 0, 5, 5, 5, 5, 0, 0 - 5,
       0 - 10, 5, 5, 5, 5, 5, 0, 0 - 10,
       0 - 10, 0, 5, 0, 0, 0, 0, 0 - 10,
       0 - 20, 0 - 10, 0 - 10, 0 - 5, 0 - 5, 0 - 10, 0 - 10, 0 - 20 >>

KING_MIDDLEGAME_TABLE ==
    << 0 - 30, 0 - 40, 0 - 40, 0 - 50, 0 - 50, 0 - 40, 0 - 40, 0 - 30,
       0 - 30, 0 - 40, 0 - 40, 0 - 50, 0 - 50, 0 - 40, 0 - 40, 0 - 30,
       0 - 30, 0 - 40, 0 - 40, 0 - 50, 0 - 50, 0 - 40, 0 - 40, 0 - 30,
       0 - 30, 0 - 40, 0 - 40, 0 - 50, 0 - 50, 0 - 40, 0 - 40, 0 - 30,
       0 - 20, 0 - 30, 0 - 30, 0 - 40, 0 - 40, 0 - 30, 0 - 30, 0 - 20,
       0 - 10, 0 - 20, 0 - 20, 0 - 20, 0 - 20, 0 - 20, 0 - 20, 0 - 10,
       20, 20, 0, 0, 0, 0, 20, 20,
       20, 30, 10, 0, 0, 10, 30, 20 >>

KING_ENDGAME_TABLE ==
    << 0 - 50, 0 - 40, 0 - 30, 0 - 20, 0 - 20, 0 - 30, 0 - 40, 0 - 50,
       0 - 30, 0 - 20, 0 - 10, 0, 0, 0 - 10, 0 - 20, 0 - 30,
       0 - 30, 0 - 10, 20, 30, 30, 20, 0 - 10, 0 - 30,
       0 - 30, 0 - 10, 30, 40, 40, 30, 0 - 10, 0 - 30,
       0 - 30, 0 - 10, 30, 40, 40, 30, 0 - 10, 0 - 30,
       0 - 30, 0 - 10, 20, 30, 30, 20, 0 - 10, 0 - 30,
       0 - 30, 0 - 30, 0, 0, 0, 0, 0 - 30, 0 - 30,
       0 - 50, 0 - 30, 0 - 30, 0 - 30, 0 - 30, 0 - 30, 0 - 30, 0 - 50 >>

BISHOP_PAIR_BONUS == 50

CASTLING_RIGHTS_BONUS == 15

evaluate_classic(b) ==
    LET value(i) == IF piece_at(b, i) = None THEN 0
                    ELSE IF piece_at(b, i).color = "White"
                    THEN material(piece_at(b, i).kind)
                    ELSE 0 - material(piece_at(b, i).kind)
        sum[i \in 0 .. 64] == IF i = 64 THEN 0 ELSE value(i) + sum[i + 1]
    IN  sum[0]

get_piece_value(kind) ==
    CASE kind = "Pawn" -> PAWN_VALUE
      [] kind = "Knight" -> KNIGHT_VALUE
      [] kind = "Bishop" -> BISHOP_VALUE
      [] kind = "Rook" -> ROOK_VALUE
      [] kind = "Queen" -> QUEEN_VALUE
      [] kind = "King" -> KING_VALUE

\* square ^ 56 for a square of 0 .. 63: the rank is mirrored, the file kept
xor56(square) == (7 - rank_of(square)) * 8 + file_of(square)

get_positional_value(piece, square, is_endgame) ==
    LET index == IF piece.color = "White" THEN square ELSE xor56(square)
    IN  CASE piece.kind = "Pawn" -> PAWN_TABLE[index + 1]
          [] piece.kind = "Knight" -> KNIGHT_TABLE[index + 1]
          [] piece.kind = "Bishop" -> BISHOP_TABLE[index + 1]
          [] piece.kind = "Rook" -> ROOK_TABLE[index + 1]
          [] piece.kind = "Queen" -> QUEEN_TABLE[index + 1]
          [] piece.kind = "King" ->
               IF is_endgame THEN KING_ENDGAME_TABLE[index + 1]
               ELSE KING_MIDDLEGAME_TABLE[index + 1]

\* the number of occupied squares among 0 .. i: piece_count when the loop is at i
pieces_upto(b, i) == Cardinality({j \in 0 .. i : piece_at(b, j) # None})

bishops(b, color) == Cardinality({j \in Squares : piece_at(b, j) = Pc("Bishop", color)})

evaluate_advanced(b) ==
    LET total_value(i) ==
            get_piece_value(piece_at(b, i).kind)
            + get_positional_value(piece_at(b, i), i, pieces_upto(b, i) <= 14)
        term(i) == IF piece_at(b, i) = None THEN 0
                   ELSE IF piece_at(b, i).color = "White" THEN total_value(i)
                   ELSE 0 - total_value(i)
        sum[i \in 0 .. 64] == IF i = 64 THEN 0 ELSE term(i) + sum[i + 1]
    IN  sum[0]
        + (IF bishops(b, "White") >= 2 THEN BISHOP_PAIR_BONUS ELSE 0)
        - (IF bishops(b, "Black") >= 2 THEN BISHOP_PAIR_BONUS ELSE 0)
        + (IF b.castle_wk \/ b.castle_wq THEN CASTLING_RIGHTS_BONUS ELSE 0)
        - (IF b.castle_bk \/ b.castle_bq THEN CASTLING_RIGHTS_BONUS ELSE 0)

\* evaluate reads the global EVALUATOR_TYPE: 1 is Classic, anything else Advanced
evaluate(evaluator, b) ==
    IF evaluator = 1 THEN evaluate_classic(b) ELSE evaluate_advanced(b)

(***************************************************************************)
(* Search engine.  The wall clock is modelled by a poll budget: the first  *)
(* `budget` evaluations of `start_time.elapsed() >= timeout` answer false  *)
(* and every later one answers true (elapsed time never decreases).  A     *)
(* zero timeout is budget 0: the first poll already answers true.          *)
(***************************************************************************)
MATE_SCORE == 100000

TimedOut == [timeout |-> TRUE, val |-> 0, budget |-> 0]

Scored(v, budget) == [timeout |-> FALSE, val |-> v, budget |-> budget]

Max(a, c) == IF a >= c THEN a ELSE c

Min(a, c) == IF a <= c THEN a ELSE c

RECURSIVE minimax(_, _, _, _)
RECURSIVE minimax_children(_, _, _, _, _, _, _)

\* a variant of minimax_children that searches the children with the flag of their parent
minimax_children_keeps_flag(b, moves, k, depth, maximizing, acc, budget) ==
    LET fold(r) ==
            IF r.timeout THEN TimedOut
            ELSE IF (IF maximizing THEN r.val > acc ELSE r.val < acc)
            THEN minimax_children(b, moves, k + 1, depth, maximizing, r.val, r.budget)
            ELSE minimax_children(b, moves, k + 1, depth, maximizing, acc, r.budget)
    IN  IF k > Len(moves) THEN Scored(acc, budget)
        ELSE fold(minimax(make_move(b, moves[k]), depth - 1, maximizing, budget))

\* the loop over the children of an inner node; `?` returns on the first timeout
minimax_children(b, moves, k, depth, maximizing, acc, budget) ==
    LET fold(r) ==
            IF r.timeout THEN TimedOut
            ELSE IF (IF maximizing THEN r.val > acc ELSE r.val < acc)
            THEN minimax_children(b, moves, k + 1, depth, maximizing, r.val, r.budget)
            ELSE minimax_children(b, moves, k + 1, depth, maximizing, acc, r.budget)
    IN  IF k > Len(moves) THEN Scored(acc, budget)
        ELSE fold(minimax(make_move(b, moves[k]), depth - 1, ~maximizing, budget))

minimax(b, depth, maximizing, budget) ==
    LET inner(moves) ==
            IF moves = <<>>
            THEN Scored(IF maximizing THEN 0 - MATE_SCORE ELSE MATE_SCORE, budget - 1)
            ELSE minimax_children(b, moves, 1, depth, maximizing,
                                  IF maximizing THEN 0 - (MATE_SCORE + 1)
                                  ELSE MATE_SCORE + 1,
                                  budget - 1)
    IN  IF budget = 0 THEN TimedOut
        ELSE IF depth = 0 \/ is_game_over(b)
        THEN IF is_checkmate(b)
             THEN Scored(IF maximizing THEN 0 - MATE_SCORE ELSE MATE_SCORE, budget - 1)
             ELSE IF is_stalemate(b) THEN Scored(0, budget - 1)
             ELSE Scored(Board_evaluate(b), budget - 1)
        ELSE inner(generate_legal_moves(b))

\* Option<Move> with the budget left
NoResult(budget) == [some |-> FALSE, move |-> NoMove, budget |-> budget]

Found(m, budget) == [some |-> TRUE, move |-> m, budget |-> budget]

RECURSIVE search_roots(_, _, _, _, _, _, _, _)
\* a variant of search_roots that returns the best root move scored so far when the
\* deadline passes
search_roots_keeps_partial(b, moves, k, depth, maximizing, best_move, best_eval, budget) ==
    LET root(m, r) ==
            IF r.timeout THEN Found(best_move, 0)
            ELSE IF (IF maximizing THEN r.val > best_eval ELSE r.val < best_eval)
            THEN search_roots(b, moves, k + 1, depth, maximizing, m, r.val, r.budget)
            ELSE search_roots(b, moves, k + 1, depth, maximizing, best_move, best_eval,
                              r.budget)
    IN  IF k > Len(moves) THEN Found(best_move, budget)
        ELSE IF budget = 0 THEN Found(best_move, 0)
        ELSE root(moves[k],
                  minimax(make_move(b, moves[k]), depth - 1, ~maximizing, budget - 1))

\* a variant of search_roots that prefers the later of two root moves of equal value
search_roots_keeps_last(b, moves, k, depth, maximizing, best_move, best_eval, budget) ==
    LET root(m, r) ==
            IF r.timeout THEN NoResult(0)
            ELSE IF (IF maximizing THEN r.val >= best_eval ELSE r.val <= best_eval)
            THEN search_roots(b, moves, k + 1, depth, maximizing, m, r.val, r.budget)
            ELSE search_roots(b, moves, k + 1, depth, maximizing, best_move, best_eval,
                              r.budget)
    IN  IF k > Len(moves) THEN Found(best_move, budget)
        ELSE IF budget = 0 THEN NoResult(0)
        ELSE root(moves[k],
                  minimax(make_move(b, moves[k]), depth - 1, ~maximizing, budget - 1))

search_roots(b, moves, k, depth, maximizing, best_move, best_eval, budget) ==
    LET root(m, r) ==
            IF r.timeout THEN NoResult(0)
            ELSE IF (IF maximizing THEN r.val > best_eval ELSE r.val < best_eval)
            THEN search_roots(b, moves, k + 1, depth, maximizing, m, r.val, r.budget)
            ELSE search_roots(b, moves, k + 1, depth, maximizing, best_move, best_eval,
                              r.budget)
    IN  IF k > Len(moves) THEN Found(best_move, budget)
        ELSE IF budget = 0 THEN NoResult(0)
        ELSE root(moves[k],
                  minimax(make_move(b, moves[k]), depth - 1, ~maximizing, budget - 1))

search_at_depth(b, depth, budget) ==
    LET search(moves, maximizing) ==
            IF moves = <<>> THEN NoResult(budget)
            ELSE search_roots(b, moves, 1, depth, maximizing, moves[1],
                              IF maximizing THEN 0 - (MATE_SCORE + 1) ELSE MATE_SCORE + 1,
                              budget)
    IN  search(generate_legal_moves(b), b.side = "White")

\* the iterative-deepening loop; `completed` counts the depths whose search returned
\* a move
RECURSIVE deepen(_, _, _, _, _)
\* a variant of deepen that searches depth 1 to its end whatever the clock says
deepen_finishes_first_depth(b, current_depth, best_move, completed, budget) ==
    LET step(r) ==
            IF ~r.some THEN [some |-> TRUE, move |-> best_move, completed |-> completed]
            ELSE IF r.budget = 0
            THEN [some |-> TRUE, move |-> r.move, completed |-> completed + 1]
            ELSE deepen(b, current_depth + 1, r.move, completed + 1, r.budget - 1)
        first(r) == step([r EXCEPT !.budget = budget])
    IN  IF current_depth = 1
        THEN first(search_at_depth(b, 1, budget + 1000))
        ELSE step(search_at_depth(b, current_depth, budget))

deepen(b, current_depth, best_move, completed, budget) ==
    LET step(r) ==
            IF ~r.some THEN [some |-> TRUE, move |-> best_move, completed |-> completed]
            ELSE IF r.budget = 0
            THEN [some |-> TRUE, move |-> r.move, completed |-> completed + 1]
            ELSE deepen(b, current_depth + 1, r.move, completed + 1, r.budget - 1)
    IN  step(search_at_depth(b, current_depth, budget))

\* a variant of find_best_move that returns no move when the deadline has passed
\* before the first depth is searched
find_best_move_needs_time(b, budget) ==
    LET start(moves) ==
            IF moves = <<>> \/ budget = 0
            THEN [some |-> FALSE, move |-> NoMove, completed |-> 0]
            ELSE deepen(b, 1, moves[1], 0, budget)
    IN  start(generate_legal_moves(b))

\* a variant of find_best_move that falls back on the last generated move
find_best_move_starts_last(b, budget) ==
    LET start(moves) ==
            IF moves = <<>> THEN [some |-> FALSE, move |-> NoMove, completed |-> 0]
            ELSE deepen(b, 1, moves[Len(moves)], 0, budget)
    IN  start(generate_legal_moves(b))

find_best_move(b, budget) ==
    LET start(moves) ==
            IF moves = <<>> THEN [some |-> FALSE, move |-> NoMove, completed |-> 0]
            ELSE deepen(b, 1, moves[1], 0, budget)
    IN  start(generate_legal_moves(b))

(***************************************************************************)
(* Board::serialize and the opening book                                   *)
(***************************************************************************)
piece_char(p) ==
    IF p = None THEN "."
    ELSE CASE p = Pc("Pawn", "White") -> "P"
           [] p = Pc("Knight", "White") -> "N"
           [] p = Pc("Bishop", "White") -> "B"
           [] p = Pc("Rook", "White") -> "R"
           [] p = Pc("Queen", "White") -> "Q"
           [] p = Pc("King", "White") -> "K"
           [] p = Pc("Pawn", "Black") -> "p"
           [] p = Pc("Knight", "Black") -> "n"
           [] p = Pc("Bishop", "Black") -> "b"
           [] p = Pc("Rook", "Black") -> "r"
           [] p = Pc("Queen", "Black") -> "q"
           [] p = Pc("King", "Black") -> "k"

\* a variant of serialize that leaves the castling rights out
serialize_without_rights(b) ==
    [i \in 1 .. 64 |-> piece_char(piece_at(b, i - 1))]
    \o <<"|", IF b.side = "White" THEN "W" ELSE "B">>
    \o <<"|", "-">>
    \o <<"|">>
    \o (IF b.ep_square # NoSq
        THEN <<file_chars[file_of(b.ep_square) + 1], rank_chars[rank_of(b.ep_square) + 1]>>
        ELSE <<"-">>)

\* the text of the key: placement, side, castling rights, en passant square
serialize(b) ==
    [i \in 1 .. 64 |-> piece_char(piece_at(b, i - 1))]
    \o <<"|", IF b.side = "White" THEN "W" ELSE "B">>
    \o <<"|">>
    \o (IF b.castle_wk THEN <<"K">> ELSE <<>>)
    \o (IF b.castle_wq THEN <<"Q">> ELSE <<>>)
    \o (IF b.castle_bk THEN <<"k">> ELSE <<>>)
    \o (IF b.castle_bq THEN <<"q">> ELSE <<>>)
    \o (IF ~b.castle_wk /\ ~b.castle_wq /\ ~b.castle_bk /\ ~b.castle_bq
        THEN <<"-">> ELSE <<>>)
    \o <<"|">>
    \o (IF b.ep_square # NoSq
        THEN <<file_chars[file_of(b.ep_square) + 1], rank_chars[rank_of(b.ep_square) + 1]>>
        ELSE <<"-">>)

opening_lines ==
    <<
       << <<"e", "4">>, <<"e", "5">>, <<"N", "f", "3">>, <<"N", "c", "6">>,
          <<"B", "c", "4">>, <<"B", "c", "5">>, <<"c", "3">>, <<"N", "f", "6">>,
          <<"d", "4">> >>,
       << <<"e", "4">>, <<"e", "5">>, <<"N", "f", "3">>, <<"N", "c", "6">>,
          <<"B", "c", "4">>, <<"N", "f", "6">>, <<"d", "3">> >>,
       << <<"e", "4">>, <<"e", "5">>, <<"N", "f", "3">>, <<"N", "c", "6">>,
          <<"B", "b", "5">>, <<"a", "6">>, <<"B", "a", "4">>, <<"N", "f", "6">>,
          <<"O", "-", "O">>, <<"B", "e", "7">> >>,
       << <<"e", "4">>, <<"e", "5">>, <<"N", "f", "3">>, <<"N", "f", "6">>,
          <<"N", "x", "e", "5">>, <<"d", "6">>, <<"N", "f", "3">> >>,
       << <<"e", "4">>, <<"c", "5">>, <<"N", "f", "3">>, <<"d", "6">>, <<"d", "4">>,
          <<"c", "x", "d", "4">>, <<"N", "x", "d", "4">>, <<"N", "f", "6">> >>,
       << <<"e", "4">>, <<"c", "5">>, <<"N", "f", "3">>, <<"N", "c", "6">>, <<"d", "4">>,
          <<"c", "x", "d", "4">>, <<"N", "x", "d", "4">> >>,
       << <<"e", "4">>, <<"e", "6">>, <<"d", "4">>, <<"d", "5">>, <<"N", "c", "3">>,
          <<"N", "f", "6">> >>,
       << <<"e", "4">>, <<"e", "6">>, <<"d", "4">>, <<"d", "5">>, <<"e", "5">>,
          <<"c", "5">> >>,
       << <<"e", "4">>, <<"c", "6">>, <<"d", "4">>, <<"d", "5">>, <<"N", "c", "3">> >>,
       << <<"d", "4">>, <<"d", "5">>, <<"c", "4">>, <<"e", "6">>, <<"N", "c", "3">>,
          <<"N", "f", "6">> >>,
       << <<"d", "4">>, <<"d", "5">>, <<"c", "4">>, <<"c", "6">>, <<"N", "f", "3">> >>,
       << <<"d", "4">>, <<"d", "5">>, <<"c", "4">>, <<"d", "x", "c", "4">>,
          <<"N", "f", "3">> >>,
       << <<"d", "4">>, <<"N", "f", "6">>, <<"c", "4">>, <<"g", "6">>, <<"N", "c", "3">>,
          <<"B", "g", "7">>, <<"e", "4">> >>,
       << <<"c", "4">>, <<"e", "5">>, <<"N", "c", "3">> >>,
       << <<"c", "4">>, <<"N", "f", "6">>, <<"N", "c", "3">> >>,
       << <<"c", "4">>, <<"c", "5">>, <<"N", "f", "3">> >>
    >>

\* the Board after the tokens i .. n of a line, stopping at the first that fails
RECURSIVE play_prefix(_, _, _, _)
play_prefix(b, line, i, n) ==
    LET step(r) == IF r.result # "Ok" THEN b ELSE play_prefix(r.board, line, i + 1, n)
    IN  IF i > n THEN b ELSE step(parse_and_play_token(b, line[i]))

\* the pairs (key, recommended) OpeningBook::new registers for one line, in order
line_registrations(line) ==
    [n \in 1 .. Len(line) |->
        [key |-> serialize(play_prefix(new, line, 1, n - 1)), recommended |-> line[n]]]

\* the pairs of the lines l .. Len(opening_lines), in the order registered
RECURSIVE registrations(_)
registrations(l) ==
    IF l > Len(opening_lines) THEN <<>>
    ELSE line_registrations(opening_lines[l]) \o registrations(l + 1)

\* the HashMap of OpeningBook::new: each key with its candidates in the order pushed
OpeningBook_new ==
    LET map(regs) ==
            [key \in {regs[i].key : i \in 1 .. Len(regs)} |->
                LET same(r) == r.key = key
                    of_key(rs) == [i \in 1 .. Len(rs) |-> rs[i].recommended]
                IN  of_key(SelectSeq(regs, same))]
    IN  map(registrations(1))

\* a variant of lookup that returns the candidate registered last
lookup_last(book, b) ==
    LET get(key) ==
            IF key \in DOMAIN book /\ book[key] # <<>>
            THEN [some |-> TRUE, move |-> book[key][Len(book[key])]]
            ELSE [some |-> FALSE, move |-> <<>>]
    IN  get(serialize(b))

\* Option<String>: the first candidate of the key of the Board
lookup(book, b) ==
    LET get(key) ==
            IF key \in DOMAIN book /\ book[key] # <<>>
            THEN [some |-> TRUE, move |-> Head(book[key])]
            ELSE [some |-> FALSE, move |-> <<>>]
    IN  get(serialize(b))

(***************************************************************************)
(* The state machine.  A caller replays a game record token by token       *)
(* (main, OpeningBook::new), applies further tokens, plays generated       *)
(* moves, evaluates and searches.                                          *)
(***************************************************************************)
\* bounds of the model
MaxFree == 1

MaxBranch == 2

MaxToks == 1

MaxPolls == 46

\* game records, legal games from the starting position
\* a white knight on c3 is pinned by the bishop on b4
PinLine ==
    << <<"e", "4">>, <<"e", "6">>, <<"N", "c", "3">>, <<"B", "b", "4">>, <<"d", "3">>, <<"a", "6">> >>

\* fool's mate
MateLine ==
    << <<"f", "3">>, <<"e", "5">>, <<"g", "4">>, <<"Q", "h", "4", "#">> >>

\* a promotion without capture
PromoLine ==
    << <<"h", "4">>, <<"g", "5">>, <<"h", "x", "g", "5">>, <<"h", "6">>, <<"g", "x", "h", "6">>, <<"N", "f", "6">>, <<"h", "7">>, <<"R", "g", "8">>, <<"h", "8", "=", "Q">> >>

\* coordinate tokens; the last one captures en passant
EpLine ==
    << <<"e", "2", "e", "4">>, <<"a", "7", "a", "6">>, <<"e", "4", "e", "5">>, <<"d", "7", "d", "5">>, <<"e", "5", "d", "6">> >>

\* the Ruy Lopez line of the opening book (src/src/opening.rs:23)
CastleLine ==
    << <<"e", "4">>, <<"e", "5">>, <<"N", "f", "3">>, <<"N", "c", "6">>, <<"B", "b", "5">>, <<"a", "6">>, <<"B", "a", "4">>, <<"N", "f", "6">>, <<"O", "-", "O">>, <<"B", "e", "7">> >>

\* Black is in check and has two legal moves
CheckLine ==
    << <<"e", "4">>, <<"e", "5">>, <<"B", "c", "4">>, <<"N", "c", "6">>, <<"B", "x", "f", "7", "+">> >>

\* White can capture a pawn, and the capture is not the first legal move
CaptureLine ==
    << <<"e", "4">>, <<"d", "5">> >>

\* a back-rank position set up with coordinate tokens: White Kg1, Ra1, Bb2, pawn h6,
\* Black Kh8, pawns f7, g7, h7, White to move; Ra8 mates
BackRankLine ==
    <<
       <<"c", "1", "b", "2">>, <<"h", "2", "h", "3">>, <<"e", "8", "h", "8">>, <<"h", "3", "h", "6">>,
       <<"d", "8", "c", "8">>, <<"c", "8", "b", "8">>, <<"b", "8", "a", "8">>, <<"a", "8", "a", "7">>,
       <<"a", "7", "b", "7">>, <<"b", "7", "c", "7">>, <<"c", "7", "d", "7">>, <<"d", "7", "e", "7">>,
       <<"e", "7", "f", "8">>, <<"f", "8", "g", "8">>, <<"g", "8", "g", "2">>, <<"g", "2", "f", "2">>,
       <<"f", "2", "e", "2">>, <<"e", "2", "d", "2">>, <<"d", "2", "c", "2">>, <<"c", "2", "a", "2">>,
       <<"a", "2", "b", "1">>, <<"b", "1", "d", "1">>, <<"d", "1", "f", "1">>, <<"f", "1", "h", "1">>,
       <<"h", "1", "g", "1">>, <<"e", "1", "g", "1">>
    >>

\* both white knights can reach d2
KnightLine ==
    << <<"d", "4">>, <<"d", "5">>, <<"N", "f", "3">>, <<"N", "f", "6">> >>

\* a position of the opening book with several lines through it
SicilianLine ==
    << <<"e", "4">>, <<"c", "5">> >>

\* a position the opening book does not hold
WingLine ==
    << <<"a", "4">>, <<"h", "5">> >>

\* the game records a caller replays
Lines == <<PinLine, MateLine, PromoLine, EpLine, CastleLine, CheckLine, CaptureLine>>

\* White has the kingside right and f1, g1 empty, and a bishop attacks f1
AttackedLine ==
    << <<"g", "3">>, <<"b", "6">>, <<"B", "g", "2">>, <<"B", "a", "6">>,
       <<"N", "f", "3">>, <<"e", "6">>, <<"e", "3">>, <<"e", "5">> >>

\* White may castle queenside: b1, c1, d1 are empty and c1, d1, e1 not attacked
QueensideLine ==
    << <<"d", "4">>, <<"d", "5">>, <<"N", "c", "3">>, <<"N", "c", "6">>,
       <<"B", "f", "4">>, <<"B", "f", "5">>, <<"Q", "d", "2">>, <<"Q", "d", "7">> >>

\* the back-rank position with Black's f-pawn gone and the rook on a7: Ra8 mates, and
\* Rxg7 leaves Black, not in check, without a legal move
StalemateLine ==
    BackRankLine \o << <<"f", "7", "a", "7">>, <<"a", "1", "a", "7">> >>

\* the back-rank position with the rook on b1 and Black's king on g8: White's bishop
\* and White's pawn can both take on g7, and no move is worth more
TieLine ==
    BackRankLine \o << <<"a", "1", "b", "1">>, <<"h", "8", "g", "8">> >>

\* both kings step out and back: every piece of a castling right is at home again
ReturnLine ==
    << <<"e", "4">>, <<"e", "5">>, <<"K", "e", "2">>, <<"K", "e", "7">>,
       <<"K", "e", "1">>, <<"K", "e", "8">> >>

\* White's bishop takes the rook on h8 while Black still has the kingside right
CornerLine ==
    << <<"b", "3">>, <<"g", "6">>, <<"B", "b", "2">>, <<"h", "6">>,
       <<"B", "x", "h", "8">> >>

\* the records that set up a position for the search, the notation, the book and
\* castling
SetUps ==
    <<BackRankLine, KnightLine, SicilianLine, WingLine, AttackedLine, QueensideLine,
      StalemateLine, CornerLine, TieLine, ReturnLine>>

\* the records after which the search is asked for a move
Records == Lines \o <<BackRankLine, StalemateLine, TieLine>>

\* other tokens a caller may pass: decorative, castling literals, coordinate and
\* SAN tokens that are legal, illegal or malformed in the positions they meet
TokenPool ==
    {<<>>,
     <<"1", "-", "0">>,
     <<"1", "2", ".">>,
     <<"O", "-", "O">>,
     <<"e", "2", "e", "5">>,
     <<"e", "1", "e", "8">>,
     <<"a", "3", "a", "4">>,
     <<"e", "4", "e", "2">>,
     <<"e", "2", "e", "4", "q">>,
     <<"N", "f", "3">>,
     <<"e", "9">>,
     <<"e", "8", "=">>}

Call(op, token, result, move, from_legal) ==
    [op |-> op, token |-> token, result |-> result, move |-> move,
     from_legal |-> from_legal]

NoAnswer == [ran |-> FALSE, budget |-> 0, some |-> FALSE, move |-> NoMove, completed |-> 0]

NoScore == [ran |-> FALSE, evaluator |-> 0, value |-> 0]

NoQuery == [op |-> "none", key |-> <<>>, some |-> FALSE, move |-> <<>>]

\* a move with the source, destination and promotion of a generated legal move
is_generated(b, m) ==
    LET among(moves) ==
            \E k \in 1 .. Len(moves) :
                /\ moves[k].from = m.from
                /\ moves[k].to = m.to
                /\ moves[k].promo = m.promo
    IN  among(generate_legal_moves(b))

Init ==
    /\ board = new
    /\ evaluator_type = 0
    /\ status = "running"
    /\ pre = new
    /\ last = Call("new", <<>>, "Ok", NoMove, TRUE)
    /\ answer = NoAnswer
    /\ score = NoScore
    /\ played = <<>>
    /\ free = 0
    /\ toks = 0
    /\ legal_play = TRUE
    /\ query = NoQuery
    /\ plies = 0

\* board.parse_and_play_token(token)
ApplyToken(token) ==
    /\ \E r \in {parse_and_play_token(board, token)} :
          /\ board' = r.board
          /\ last' = Call("token", token, r.result, r.move, legal_play)
          /\ status' = IF r.result = "Panic" THEN "panicked" ELSE status
          /\ plies' = IF r.result = "Ok" /\ r.move # NoMove THEN plies + 1 ELSE plies
          /\ legal_play' = (legal_play /\ r.result = "Ok"
                            /\ (r.move = NoMove \/ is_generated(board, r.move)))
    /\ pre' = board
    /\ answer' = NoAnswer
    /\ score' = NoScore
    /\ query' = NoQuery
    /\ UNCHANGED evaluator_type

\* the next token of a game record is applied
ReplayToken ==
    /\ status = "running"
    /\ free = 0
    /\ toks = 0
    /\ \E l \in 1 .. Len(Lines) :
          /\ Len(played) < Len(Lines[l])
          /\ SubSeq(Lines[l], 1, Len(played)) = played
          /\ ApplyToken(Lines[l][Len(played) + 1])
          /\ played' = Append(played, Lines[l][Len(played) + 1])
    /\ UNCHANGED <<free, toks>>

\* the next token of a record that sets up a position is applied
ReplaySetUp ==
    /\ status = "running"
    /\ free = 0
    /\ toks = 0
    /\ \E l \in 1 .. Len(SetUps) :
          /\ Len(played) < Len(SetUps[l])
          /\ SubSeq(SetUps[l], 1, Len(played)) = played
          /\ ApplyToken(SetUps[l][Len(played) + 1])
          /\ played' = Append(played, SetUps[l][Len(played) + 1])
    /\ UNCHANGED <<free, toks>>

\* some other token is applied
PlayToken ==
    /\ status = "running"
    /\ free = 0
    /\ toks < MaxToks
    /\ \E token \in TokenPool : ApplyToken(token)
    /\ toks' = toks + 1
    /\ UNCHANGED <<played, free>>

\* a generated legal move is applied: board.make_move(m)
PlayLegal ==
    /\ status = "running"
    /\ free < MaxFree
    /\ \E moves \in {generate_legal_moves(board)} :
          \E k \in 1 .. Min(MaxBranch, Len(moves)) :
              /\ board' = make_move(board, moves[k])
              /\ last' = Call("make_move", <<>>, "Ok", moves[k], legal_play)
    /\ pre' = board
    /\ free' = free + 1
    /\ plies' = plies + 1
    /\ answer' = NoAnswer
    /\ score' = NoScore
    /\ query' = NoQuery
    /\ UNCHANGED <<evaluator_type, status, played, toks, legal_play>>

Next == ReplayToken \/ PlayToken \/ PlayLegal

\* SAN tokens a caller may pass: plain, disambiguated, ambiguous, malformed, truncated
SanPool ==
    {<<"N", "d", "2">>,
     <<"N", "b", "d", "2">>,
     <<"N", "e", "2">>,
     <<"N", "g", "e", "2">>,
     <<"N", "1", "e", "2">>,
     <<"K", "e", "2">>,
     <<"N", "a", "5">>,
     <<"N", "i", "3">>,
     <<"e", "9">>,
     <<"N">>,
     <<"e", "8", "=">>,
     <<"X", "e", "4">>}

\* a SAN token is applied
PlaySan ==
    /\ status = "running"
    /\ free = 0
    /\ toks < MaxToks
    /\ \E token \in SanPool : ApplyToken(token)
    /\ toks' = toks + 1
    /\ UNCHANGED <<played, free>>

\* decorative tokens of a game record: empty and blank tokens, game results, move
\* numbers and other tokens that end in a full stop, with and without blanks around
DecorationPool ==
    {<<>>,
     <<" ">>,
     <<" ", " ">>,
     <<"1", "-", "0">>,
     <<"0", "-", "1">>,
     <<"1", "/", "2", "-", "1", "/", "2">>,
     <<"*">>,
     <<" ", "*", " ">>,
     <<"1", "2", ".">>,
     <<"e", "4", ".">>,
     <<"N", "f", "3", ".", " ">>}

\* a decorative token is applied
PlayDecoration ==
    /\ status = "running"
    /\ free = 0
    /\ toks < MaxToks
    /\ \E token \in DecorationPool : ApplyToken(token)
    /\ toks' = toks + 1
    /\ UNCHANGED <<played, free>>

NextDecoration == ReplayToken \/ PlayDecoration

SpecDecoration == Init /\ [][NextDecoration]_vars

NextSan == ReplayToken \/ ReplaySetUp \/ PlaySan

SpecSan == Init /\ [][NextSan]_vars

Spec == Init /\ [][Next]_vars

\* games of generated legal moves: the records and the moves the generator offers
NextPlay == ReplayToken \/ ReplaySetUp \/ PlayLegal

SpecPlay == Init /\ [][NextPlay]_vars

\* board.find_best_move(timeout), asked for once when the game record is replayed
FindBestMove ==
    /\ status = "running"
    /\ ~answer.ran
    /\ \E l \in 1 .. Len(Records) : played = Records[l]
    /\ \E budget \in 0 .. MaxPolls :
          \E r \in {find_best_move(board, budget)} :
              answer' = [ran |-> TRUE, budget |-> budget, some |-> r.some,
                         move |-> r.move, completed |-> r.completed]
    /\ UNCHANGED <<board, evaluator_type, status, pre, last, score, played, free, toks,
                   legal_play, query, plies>>

NextSearch == ReplayToken \/ ReplaySetUp \/ FindBestMove

SpecSearch == Init /\ [][NextSearch]_vars

\* set_evaluator_type
SetEvaluatorType ==
    /\ status = "running"
    /\ \E t \in {0, 1} : evaluator_type' = t
    /\ score' = NoScore
    /\ UNCHANGED <<board, status, pre, last, answer, played, free, toks, legal_play,
                   query, plies>>

\* evaluate(&board)
Evaluate ==
    /\ status = "running"
    /\ score' = [ran |-> TRUE, evaluator |-> evaluator_type,
                 value |-> evaluate(evaluator_type, board)]
    /\ UNCHANGED <<board, evaluator_type, status, pre, last, answer, played, free, toks,
                   legal_play, query, plies>>

NextEval == ReplayToken \/ SetEvaluatorType \/ Evaluate

SpecEval == Init /\ [][NextEval]_vars

\* board.serialize()
Serialize ==
    /\ status = "running"
    /\ query' = [op |-> "serialize", key |-> serialize(board), some |-> FALSE,
                 move |-> <<>>]
    /\ UNCHANGED <<board, evaluator_type, status, pre, last, answer, score, played, free,
                   toks, legal_play, plies>>

\* OpeningBook::new().lookup(&board)
Lookup ==
    /\ status = "running"
    /\ \E r \in {lookup(OpeningBook_new, board)} :
          query' = [op |-> "lookup", key |-> serialize(board), some |-> r.some,
                    move |-> r.move]
    /\ UNCHANGED <<board, evaluator_type, status, pre, last, answer, score, played, free,
                   toks, legal_play, plies>>

NextBook == ReplayToken \/ ReplaySetUp \/ PlayLegal \/ Serialize \/ Lookup

SpecBook == Init /\ [][NextBook]_vars

(***************************************************************************)
(* Properties                                                              *)
(***************************************************************************)
\* the last call applied a move to the Board
applied == last.op \in {"token", "make_move"} /\ last.result = "Ok" /\ last.move # NoMove

\* C1: in a position reached by legal play, a token that denotes a move which is not
\* a legal move is answered by an error: a token that is not answered by an error and
\* denotes a move denotes a generated legal move of the position it was applied to.
C1_IllegalTokenRejected ==
    (last.op = "token" /\ last.from_legal /\ last.result # "Err" /\ last.move # NoMove)
        => is_generated(pre, last.move)

\* C2: whenever parse_and_play_token returns Err, the Board is exactly as before the
\* call: the 64 squares, the side to move, the four castling rights, the en-passant
\* target, the halfmove clock and the fullmove number.
C2_ErrLeavesBoard ==
    (last.op = "token" /\ last.result = "Err") => board = pre

\* a SAN token naming a piece was rejected in a position other than the initial one
C2_Witness ==
    /\ last.op = "token"
    /\ last.result = "Err"
    /\ Len(last.token) = 3
    /\ last.token[1] = "N"
    /\ board # new

\* C3: in a position reached by legal moves, for every generated legal move m, parsing
\* move_to_san(m) on a copy of the position succeeds and applies a move with the source,
\* destination and promotion of m.
C3_RoundTrip ==
    legal_play =>
        \A moves \in {generate_legal_moves(board)} :
            \A k \in 1 .. Len(moves) :
                \A r \in {parse_and_play_token(board, move_to_san(board, moves[k]))} :
                    /\ r.result = "Ok"
                    /\ r.move.from = moves[k].from
                    /\ r.move.to = moves[k].to
                    /\ r.move.promo = moves[k].promo

\* after m, the mover has a king and no piece of the other colour attacks it
king_safe_after(b, m) ==
    \A t \in {make_move(b, m)} :
        \E k \in Squares :
            /\ piece_at(t, k) = Pc("King", b.side)
            /\ \A i \in Squares :
                   (piece_at(t, i) # None /\ piece_at(t, i).color = other(b.side))
                       => ~can_attack(t, i, k)

C5_EnPassantTarget ==
    applied =>
        \A double \in {/\ piece_at(pre, last.move.from).kind = "Pawn"
                       /\ rank_of(last.move.to) - rank_of(last.move.from)
                              = (IF piece_at(pre, last.move.from).color = "White"
                                 THEN 2 ELSE 0 - 2)} :
            /\ (board.ep_square # NoSq) <=> double
            /\ double => board.ep_square
                             = idx(file_of(last.move.from),
                                   (rank_of(last.move.from) + rank_of(last.move.to)) \div 2)

\* C6: in every position is_checkmate and is_stalemate are never both true, and
\* is_game_over is true exactly when generate_legal_moves is empty.
C6_GameOver ==
    /\ ~(is_checkmate(board) /\ is_stalemate(board))
    /\ is_game_over(board) <=> (generate_legal_moves(board) = <<>>)

\* C7: both evaluation strategies score the starting position exactly 0.
C7_StartScoresZero ==
    (score.ran /\ board = new) => score.value = 0

\* the position with the colours swapped, the ranks mirrored (i XOR 56) and the
\* castling rights swapped
mirror(b) ==
    [b EXCEPT !.sq = [k \in Squares |->
                         LET p == piece_at(b, xor56(k))
                         IN  IF p = None THEN None ELSE Pc(p.kind, other(p.color))],
              !.side = other(b.side),
              !.castle_wk = b.castle_bk,
              !.castle_wq = b.castle_bq,
              !.castle_bk = b.castle_wk,
              !.castle_bq = b.castle_wq,
              !.ep_square = IF b.ep_square = NoSq THEN NoSq ELSE xor56(b.ep_square)]

\* C8: the evaluation is antisymmetric: the mirrored position scores the negation of
\* the score of the position, under the classic and under the advanced strategy.
C8_Antisymmetric ==
    score.ran => evaluate(score.evaluator, mirror(board)) = 0 - score.value

\* C9: find_best_move returns no move exactly when the root position has no legal
\* move, for every timeout, the zero timeout included.
C9_NoMoveIffNoLegalMove ==
    answer.ran => (~answer.some <=> generate_legal_moves(board) = <<>>)

\* a zero timeout in a position with legal moves: the first legal move is returned
C9_Witness ==
    /\ answer.ran
    /\ answer.budget = 0
    /\ answer.some
    /\ answer.move = generate_legal_moves(board)[1]

\* a clock that never reaches the deadline
Unlimited == 1000 * 1000

\* C10: the move returned by find_best_move is the root best move of the greatest depth
\* whose full-width search completed before the deadline, and the first legal move when
\* no depth completed; a depth abandoned at the deadline does not change the answer,
\* even when some of its root moves were scored.
C10_DeepestCompletedDepth ==
    (answer.ran /\ answer.some) =>
        answer.move = (IF answer.completed = 0
                       THEN generate_legal_moves(board)[1]
                       ELSE search_at_depth(board, answer.completed, Unlimited).move)

\* depth 1 completed and its best move is not the first legal move; depth 2 was
\* abandoned after its first root move was scored
C10_Witness ==
    /\ answer.ran
    /\ answer.some
    /\ answer.completed = 1
    /\ \A moves \in {generate_legal_moves(board)} :
           /\ answer.move # moves[1]
           /\ \A d1 \in {search_at_depth(board, 1, answer.budget)} :
                  /\ d1.some
                  /\ d1.budget >= 2
                  /\ ~minimax(make_move(board, moves[1]), 1, board.side # "White",
                              d1.budget - 2).timeout
                  /\ ~search_at_depth(board, 2, d1.budget - 1).some

\* C11 as stated: a search started with an already-expired timeout returns the depth-1
\* result, or no move when the root has no legal move.
C11_ExpiredReturnsDepthOne ==
    (answer.ran /\ answer.budget = 0) =>
        IF generate_legal_moves(board) = <<>> THEN ~answer.some
        ELSE /\ answer.some
             /\ answer.move = search_at_depth(board, 1, Unlimited).move

\* C11 amended: a search started with an already-expired timeout completes no depth
\* (its first poll, before the first root move, already fails, so no node is started)
\* and returns the first generated legal move, or no move exactly when the root has
\* no legal move.
C11_ExpiredReturnsFirstLegalMove ==
    (answer.ran /\ answer.budget = 0) =>
        /\ answer.completed = 0
        /\ ~search_at_depth(board, 1, 0).some
        /\ IF generate_legal_moves(board) = <<>> THEN ~answer.some
           ELSE answer.some /\ answer.move = generate_legal_moves(board)[1]

\* an expired timeout in a position whose depth-1 best move is not the first legal move
C11_Witness ==
    /\ answer.ran
    /\ answer.budget = 0
    /\ answer.some
    /\ answer.move # search_at_depth(board, 1, Unlimited).move

\* the deepest full-width search of the properties
MaxDepth == 3

\* a position the search is asked about: FindBestMove is enabled
search_position ==
    /\ status = "running"
    /\ ~answer.ran
    /\ \E l \in 1 .. Len(Records) : played = Records[l]

\* m is a rook or queen move to the back rank of the other side that leaves the other
\* side, its king on that rank, checkmated
back_rank_mate(b, m) ==
    /\ piece_at(b, m.from).kind \in {"Rook", "Queen"}
    /\ rank_of(m.to) = (IF b.side = "White" THEN 7 ELSE 0)
    /\ find_king(b, other(b.side)) # NoSq
    /\ rank_of(find_king(b, other(b.side))) = rank_of(m.to)
    /\ is_checkmate(make_move(b, m))

\* C12: in a back-rank position where the side to move has a checkmating move, the
\* position after that move reports checkmate, and the search of every depth from 1
\* on returns a move that checkmates.
C12_SearchFindsBackRankMate ==
    search_position =>
        \A moves \in {generate_legal_moves(board)} :
            (\E k \in 1 .. Len(moves) : back_rank_mate(board, moves[k])) =>
                \A depth \in 1 .. MaxDepth :
                    is_checkmate(make_move(board,
                                           search_at_depth(board, depth, Unlimited).move))

\* how the notation reads the piece tokens of SanPool: kind, destination and the
\* file and rank the source is restricted to
SanCases ==
    {[token |-> <<"N", "d", "2">>, kind |-> "Knight", to |-> 11, file |-> NoSq, rank |-> NoSq],
     [token |-> <<"N", "b", "d", "2">>, kind |-> "Knight", to |-> 11, file |-> 1, rank |-> NoSq],
     [token |-> <<"N", "e", "2">>, kind |-> "Knight", to |-> 12, file |-> NoSq, rank |-> NoSq],
     [token |-> <<"N", "g", "e", "2">>, kind |-> "Knight", to |-> 12, file |-> 6, rank |-> NoSq],
     [token |-> <<"N", "1", "e", "2">>, kind |-> "Knight", to |-> 12, file |-> NoSq, rank |-> 0],
     [token |-> <<"K", "e", "2">>, kind |-> "King", to |-> 12, file |-> NoSq, rank |-> NoSq],
     [token |-> <<"N", "a", "5">>, kind |-> "Knight", to |-> 32, file |-> NoSq, rank |-> NoSq]}

\* the squares of the pieces of the side to move, of the kind and on the file and rank
\* of case c, whose movement geometry reaches the destination of c
san_sources(b, c) ==
    {i \in Squares :
        /\ piece_at(b, i) = Pc(c.kind, b.side)
        /\ c.file # NoSq => file_of(i) = c.file
        /\ c.rank # NoSq => rank_of(i) = c.rank
        /\ \/ piece_at(b, c.to) = None
           \/ piece_at(b, c.to).color # b.side
        /\ LET df == Abs(file_of(i) - file_of(c.to))
               dr == Abs(rank_of(i) - rank_of(c.to))
           IN  IF c.kind = "Knight" THEN <<df, dr>> \in {<<1, 2>>, <<2, 1>>}
               ELSE df <= 1 /\ dr <= 1 /\ i # c.to}

\* C13: a SAN token yields a move exactly when one single piece of the side to move,
\* of the named kind and on the named file or rank, can reach the destination, and
\* the move is from that piece's square; with no such piece or with several the
\* token is an error.
C13_SanNeverGuesses ==
    \A c \in SanCases :
        (last.op = "token" /\ last.token = c.token) =>
            \A sources \in {san_sources(pre, c)} :
                /\ last.result = "Ok" <=> Cardinality(sources) = 1
                /\ last.result = "Ok" => last.move.from \in sources /\ last.move.to = c.to
                /\ last.result # "Ok" => last.result = "Err" /\ board = pre

\* the unqualified token is ambiguous in the position where the disambiguated token
\* has just been applied
C13_Witness ==
    /\ last.op = "token"
    /\ last.token = <<"N", "b", "d", "2">>
    /\ last.result = "Ok"
    /\ last.move.from = 1
    /\ Cardinality(san_sources(pre, [token |-> <<"N", "d", "2">>, kind |-> "Knight",
                                     to |-> 11, file |-> NoSq, rank |-> NoSq])) = 2
    /\ parse_san_and_find_move(pre, <<"N", "d", "2">>).result = "Err"

\* SAN tokens with a destination that is no square, with less than a destination,
\* with "=" and no promotion letter, and with a letter that names no piece
Malformed ==
    {<<"N", "i", "3">>, <<"e", "9">>, <<"N">>, <<"e", "8", "=">>, <<"X", "e", "4">>}

\* C14: a malformed token (a destination that is no square, a truncated token, a
\* letter that names no piece) makes parse_and_play_token return Err: the call does
\* not panic and the Board is as it was.
C14_MalformedRejected ==
    (last.op = "token" /\ last.token \in Malformed) =>
        /\ last.result = "Err"
        /\ status = "running"
        /\ board = pre

\* two Boards agree on the 64 squares, the side to move, the four castling rights and
\* the en passant square
same_position(a, b) ==
    /\ a.sq = b.sq
    /\ a.side = b.side
    /\ a.castle_wk = b.castle_wk
    /\ a.castle_wq = b.castle_wq
    /\ a.castle_bk = b.castle_bk
    /\ a.castle_bq = b.castle_bq
    /\ a.ep_square = b.ep_square

Pieces ==
    {None} \cup {Pc(k, c) : k \in {"Pawn", "Knight", "Bishop", "Rook", "Queen", "King"},
                            c \in {"White", "Black"}}

\* Boards to compare b with: the Board before the last call, the start position, b
\* with other clocks, and b with one square, the side, one right or the en passant
\* square changed
neighbours(b) ==
    {pre, new}
    \cup {[b EXCEPT !.halfmove_clock = h, !.fullmove_number = f] :
             h \in {0, b.halfmove_clock + 1}, f \in {1, b.fullmove_number + 1}}
    \cup {[b EXCEPT !.sq[i] = p, !.halfmove_clock = 0] : i \in Squares, p \in Pieces}
    \cup {[b EXCEPT !.side = other(b.side)]}
    \cup {[b EXCEPT !.castle_wk = ~b.castle_wk], [b EXCEPT !.castle_wq = ~b.castle_wq],
          [b EXCEPT !.castle_bk = ~b.castle_bk], [b EXCEPT !.castle_bq = ~b.castle_bq]}
    \cup {[b EXCEPT !.ep_square = e] : e \in {NoSq} \cup 16 .. 23 \cup 40 .. 47}

\* C15: the key of serialize is canonical: two Boards have the same key exactly when
\* they agree on the 64 squares, the side to move, the four castling rights and the
\* en passant square; the halfmove clock and the fullmove number do not enter it.
C15_SerializeCanonical ==
    query.op = "serialize" =>
        \A o \in neighbours(board) :
            query.key = serialize(o) <=> same_position(board, o)

\* the key was taken of a Board whose clocks have advanced and that has lost a
\* castling right: the clocks do not change the key, the right does
C15_Witness ==
    /\ query.op = "serialize"
    /\ board.halfmove_clock > 0
    /\ board.fullmove_number > 1
    /\ board.ep_square = NoSq
    /\ ~board.castle_wk
    /\ query.key = serialize([board EXCEPT !.halfmove_clock = 0, !.fullmove_number = 1])
    /\ query.key # serialize([board EXCEPT !.castle_wk = TRUE])

\* C16: after n moves applied from the start position the side to move is White
\* exactly when n is even, and the fullmove number is 1 + n \div 2.
C16_SideAndFullmove ==
    /\ board.side = "White" <=> plies % 2 = 0
    /\ board.fullmove_number = 1 + plies \div 2

\* Black is to move after five moves, one of them not a generated legal move
C16_Witness ==
    /\ plies = 5
    /\ ~legal_play
    /\ applied
    /\ board.side = "Black"
    /\ board.fullmove_number = 3

\* the generated legal moves of b that a token of the book is the notation of: the
\* castle for O-O, else the moves of the named kind (a pawn if no piece is named, from
\* the named file if it captures) to the square the token ends with, capturing exactly
\* if the token has the capture mark
moves_written(b, token) ==
    LET dest == idx(file_index(token[Len(token) - 1]), rank_index(token[Len(token)]))
        kind == san_kind(token[1])
        fits(m) ==
            IF token = <<"O", "-", "O">> THEN m.is_castle_kingside
            ELSE /\ ~m.is_castle_kingside /\ ~m.is_castle_queenside
                 /\ m.to = dest
                 /\ piece_at(b, m.from).kind = kind
                 /\ m.is_capture <=> contains(token, "x")
                 /\ (kind = "Pawn" /\ Len(token) = 4) =>
                        file_of(m.from) = file_index(token[1])
        pick(moves) == {moves[k] : k \in {j \in 1 .. Len(moves) : fits(moves[j])}}
    IN  pick(generate_legal_moves(b))

\* the positions of the game a line is the record of: the start position and the
\* position after each move, which is the one generated legal move the token writes
RECURSIVE book_game(_, _, _)
book_game(line, n, b) ==
    LET play(ms) == IF Cardinality(ms) = 1 THEN make_move(b, CHOOSE m \in ms : TRUE) ELSE b
    IN  IF n > Len(line) THEN <<b>>
        ELSE <<b>> \o book_game(line, n + 1, play(moves_written(b, line[n])))

BookGames == [l \in 1 .. Len(opening_lines) |-> book_game(opening_lines[l], 1, new)]

\* the keys of the positions reached by the proper prefixes of the book lines
BookKeys ==
    [l \in 1 .. Len(opening_lines) |->
        [n \in 1 .. Len(opening_lines[l]) |-> serialize(BookGames[l][n])]]

\* every token of every book line is the notation of one generated legal move of the
\* position it meets, parses as that move and is applied
BookLinesApply ==
    \A l \in 1 .. Len(opening_lines) :
        \A n \in 1 .. Len(opening_lines[l]) :
            \A r \in {parse_and_play_token(BookGames[l][n], opening_lines[l][n])} :
                /\ Cardinality(moves_written(BookGames[l][n], opening_lines[l][n])) = 1
                /\ r.result = "Ok"
                /\ r.move # NoMove
                /\ r.board = BookGames[l][n + 1]

\* the places (line, number of moves played) of the book at which the key is reached
book_places(key) ==
    {pl \in UNION {{<<l, n>> : n \in 0 .. Len(opening_lines[l]) - 1} :
                       l \in 1 .. Len(opening_lines)} :
        BookKeys[pl[1]][pl[2] + 1] = key}

\* the place registered first: the least line, and in it the least number of moves
first_place(places) ==
    CHOOSE pl \in places :
        \A other_pl \in places :
            \/ pl[1] < other_pl[1]
            \/ pl[1] = other_pl[1] /\ pl[2] <= other_pl[2]

\* C17: lookup returns a move exactly for the positions whose key is the key of a
\* position reached by a proper prefix of a book line, and the move is the next move
\* of the first registered such line; every token of every book line parses and is
\* applied.
C17_LookupFirstLine ==
    query.op = "lookup" =>
        \A places \in {book_places(query.key)} :
            /\ query.some <=> places # {}
            /\ query.some =>
                   \A pl \in {first_place(places)} :
                       query.move = opening_lines[pl[1]][pl[2] + 1]
            /\ BookLinesApply

\* after e4 c5, a position two book lines pass through, the book answers Nf3
C17_Witness ==
    /\ query.op = "lookup"
    /\ played = SicilianLine
    /\ free = 0
    /\ Cardinality(book_places(query.key)) = 2
    /\ query.some
    /\ query.move = <<"N", "f", "3">>

\* the last move took a piece: the destination was occupied, or it was en passant
captured == piece_at(pre, last.move.to) # None \/ last.move.is_en_passant

\* C18: after a legal move the halfmove clock is 0 if the piece moved was a pawn (a
\* promoting pawn that does not capture included) or the move captured, and one more
\* than before otherwise.
C18_HalfmoveClock ==
    (applied /\ legal_play) =>
        board.halfmove_clock =
            IF piece_at(pre, last.move.from).kind = "Pawn" \/ captured
            THEN 0 ELSE pre.halfmove_clock + 1

\* a right that was set is still set after move m exactly when m neither leaves the
\* king's home square nor leaves or lands on the rook's home corner
right_kept(m, king_home, rook_home) ==
    /\ m.from # king_home
    /\ m.from # rook_home
    /\ m.to # rook_home

\* C19: make_move clears castling rights on these triggers and no others: a move from
\* e1 or e8 clears both rights of that colour, a move from or to a1, h1, a8 or h8
\* clears the right of that corner; every other right keeps its value.
C19_CastlingRightsRevoked ==
    applied =>
        /\ board.castle_wk = (pre.castle_wk /\ right_kept(last.move, 4, 7))
        /\ board.castle_wq = (pre.castle_wq /\ right_kept(last.move, 4, 0))
        /\ board.castle_bk = (pre.castle_bk /\ right_kept(last.move, 60, 63))
        /\ board.castle_bq = (pre.castle_bq /\ right_kept(last.move, 60, 56))

\* the side to move may castle: it has the right, the squares between king and rook
\* are empty, and no square the king stands on or crosses is attacked by the other side
may_castle(b, kingside) ==
    LET rank == IF b.side = "White" THEN 0 ELSE 7
        right == IF b.side = "White"
                 THEN (IF kingside THEN b.castle_wk ELSE b.castle_wq)
                 ELSE (IF kingside THEN b.castle_bk ELSE b.castle_bq)
        between == IF kingside THEN {5, 6} ELSE {1, 2, 3}
        path == IF kingside THEN {4, 5, 6} ELSE {4, 3, 2}
    IN  /\ right
        /\ \A file \in between : piece_at(b, idx(file, rank)) = None
        /\ \A file \in path : ~is_square_attacked(b, idx(file, rank), other(b.side))

\* the castling move of the side to move is among the moves
castle_among(b, moves, kingside) ==
    \E k \in 1 .. Len(moves) :
        /\ IF kingside THEN moves[k].is_castle_kingside ELSE moves[k].is_castle_queenside
        /\ moves[k].from = idx(4, IF b.side = "White" THEN 0 ELSE 7)
        /\ moves[k].to = idx(IF kingside THEN 6 ELSE 2, IF b.side = "White" THEN 0 ELSE 7)

\* C20: a castling move is among the generated moves exactly when the right is set,
\* the squares between king and rook are empty (f, g or b, c, d) and the king's
\* start, transit and destination squares (e, f, g or e, d, c) are not attacked.
C20_CastlingGenerated ==
    \A moves \in {generate_legal_moves(board)} :
        \A kingside \in BOOLEAN :
            castle_among(board, moves, kingside) <=> may_castle(board, kingside)

\* castling kingside is generated in a position where the side to move may castle
C20_Witness ==
    /\ may_castle(board, TRUE)
    /\ castle_among(board, generate_legal_moves(board), TRUE)
    /\ ~may_castle(board, FALSE)
    /\ board.castle_wq

\* positions with at most this many legal moves are searched two plies deep in the
\* properties, the others one ply deep
MaxWidth == 2

\* the score of a node that ends the search, by the side to move
terminal_score(b) ==
    IF is_checkmate(b) THEN (IF b.side = "White" THEN 0 - 100000 ELSE 100000)
    ELSE IF is_stalemate(b) THEN 0
    ELSE Board_evaluate(b)

Greatest(S) == CHOOSE x \in S : \A y \in S : y <= x

Least(S) == CHOOSE x \in S : \A y \in S : x <= y

RECURSIVE side_value(_, _)
\* the value of a node searched depth plies deep: White to move takes the greatest
\* value of the positions after its legal moves, Black to move the least
side_value(b, depth) ==
    LET best(moves) ==
            IF depth = 0 \/ moves = <<>> THEN terminal_score(b)
            ELSE IF b.side = "White"
            THEN Greatest({side_value(make_move(b, moves[k]), depth - 1) : k \in 1 .. Len(moves)})
            ELSE Least({side_value(make_move(b, moves[k]), depth - 1) : k \in 1 .. Len(moves)})
    IN  best(generate_legal_moves(b))

\* C21: a node whose side to move is checkmated scores -100000 with White to move and
\* +100000 with Black to move, a stalemated node scores 0 and any other node at depth
\* 0 scores the static evaluation; every node is searched with the maximizing flag
\* equal to (side to move = White), so that the value of a node searched one or two
\* plies deep is the greatest (White to move) or least (Black to move) value of its
\* children.
C21_MinimaxTerminalScores ==
    search_position =>
        \A moves \in {generate_legal_moves(board)} :
            /\ \A depth \in 1 .. (IF Len(moves) <= MaxWidth THEN 2 ELSE 1) :
                   minimax(board, depth, board.side = "White", Unlimited).val
                       = side_value(board, depth)
            /\ \A k \in 1 .. Len(moves) :
                   \A node \in {make_move(board, moves[k])} :
                       \A depth \in 0 .. 1 :
                           (depth = 0 \/ is_game_over(node)) =>
                               minimax(node, depth, node.side = "White", Unlimited).val
                                   = terminal_score(node)

\* the search is asked about a position where White has a move that checkmates and
\* scores +100000 as a node of the search
C21_Witness ==
    /\ search_position
    /\ board.side = "White"
    /\ \E moves \in {generate_legal_moves(board)} :
           \E k \in 1 .. Len(moves) :
               \E node \in {make_move(board, moves[k])} :
                   /\ is_checkmate(node)
                   /\ minimax(node, 0, FALSE, Unlimited).val = 100000

\* the search is asked about a position where White has a move that stalemates
C21_StalemateNode ==
    /\ search_position
    /\ \E moves \in {generate_legal_moves(board)} :
           \E k \in 1 .. Len(moves) : is_stalemate(make_move(board, moves[k]))

\* the search is asked about a position searched two plies deep
C21_TwoPlies ==
    /\ search_position
    /\ Len(generate_legal_moves(board)) \in 1 .. MaxWidth

\* the advanced score with every king scored by the total number of pieces on the
\* board: the endgame table with 14 pieces or fewer, the middlegame table with more
advanced_by_total(b) ==
    LET is_endgame == Cardinality({j \in Squares : piece_at(b, j) # None}) <= 14
        total_value(i) ==
            get_piece_value(piece_at(b, i).kind)
            + get_positional_value(piece_at(b, i), i, is_endgame)
        white == {i \in Squares : piece_at(b, i) # None /\ piece_at(b, i).color = "White"}
        black == {i \in Squares : piece_at(b, i) # None /\ piece_at(b, i).color = "Black"}
        sum[S \in SUBSET Squares] ==
            IF S = {} THEN 0
            ELSE LET i == CHOOSE j \in S : TRUE IN total_value(i) + sum[S \ {i}]
    IN  sum[white] - sum[black]
        + (IF bishops(b, "White") >= 2 THEN BISHOP_PAIR_BONUS ELSE 0)
        - (IF bishops(b, "Black") >= 2 THEN BISHOP_PAIR_BONUS ELSE 0)
        + (IF b.castle_wk \/ b.castle_wq THEN CASTLING_RIGHTS_BONUS ELSE 0)
        - (IF b.castle_bk \/ b.castle_bq THEN CASTLING_RIGHTS_BONUS ELSE 0)

\* C22: in the advanced evaluation every king is scored with the endgame king table
\* exactly when the total number of pieces on the board is 14 or fewer, and with the
\* middlegame table otherwise, whatever its square and colour.
C22_KingTableByTotal ==
    (score.ran /\ score.evaluator # 1) => score.value = advanced_by_total(board)

\* the final rank of a pawn of the colour
final_rank(color) == IF color = "White" THEN 7 ELSE 0

\* the promotion kinds of the moves that go from the one square to the other
variants(moves, from, to) ==
    [k \in {j \in 1 .. Len(moves) : moves[j].from = from /\ moves[j].to = to}
        |-> moves[k].promo]

\* C23: a generated legal move carries a promotion kind exactly when the piece moved
\* is a pawn and the destination is on its final rank; the moves of such a pawn to
\* such a square are exactly four, one for each of Queen, Rook, Bishop, Knight; and
\* no pawn stands on rank 1 or 8 in a position reached by generated legal moves.
C23_PromotionOnFinalRank ==
    /\ status = "running" =>
           \A moves \in {generate_legal_moves(board)} :
               \A k \in 1 .. Len(moves) :
                   \A piece \in {piece_at(board, moves[k].from)} :
                       /\ moves[k].promo # NoKind <=>
                              (piece.kind = "Pawn"
                               /\ rank_of(moves[k].to) = final_rank(piece.color))
                       /\ moves[k].promo # NoKind =>
                              \A v \in {variants(moves, moves[k].from, moves[k].to)} :
                                  /\ Cardinality(DOMAIN v) = 4
                                  /\ {v[j] : j \in DOMAIN v}
                                         = {"Queen", "Rook", "Bishop", "Knight"}
    /\ legal_play =>
           \A i \in Squares :
               piece_at(board, i).kind = "Pawn" => rank_of(i) \notin {0, 7}

\* a generated promotion has been applied in a game of generated legal moves: the
\* pawn left the seventh rank and a queen stands on the eighth
C23_Witness ==
    /\ legal_play
    /\ applied
    /\ last.move.promo = "Queen"
    /\ piece_at(pre, last.move.from) = Pc("Pawn", "White")
    /\ rank_of(last.move.to) = 7
    /\ piece_at(board, last.move.to) = Pc("Queen", "White")
    /\ Cardinality(DOMAIN variants(generate_legal_moves(pre), last.move.from,
                                   last.move.to)) = 4

\* a token that carries no move: empty once the blanks around it are removed, a game
\* result, or a token whose last character is a full stop
decorative(token) ==
    LET inner == {i \in 1 .. Len(token) : token[i] # " "}
        first == CHOOSE i \in inner : \A j \in inner : i <= j
        final == CHOOSE i \in inner : \A j \in inner : j <= i
        text == IF inner = {} THEN <<>> ELSE SubSeq(token, first, final)
    IN  \/ text = <<>>
        \/ text \in {<<"1", "-", "0">>, <<"0", "-", "1">>,
                     <<"1", "/", "2", "-", "1", "/", "2">>, <<"*">>}
        \/ text[Len(text)] = "."

\* C24: decorative tokens are no-ops: for an empty or blank token, a game-result
\* token (1-0, 0-1, 1/2-1/2, *) or a token that ends in a full stop,
\* parse_and_play_token returns Ok and leaves every field of the position unchanged;
\* in particular the side to move does not flip.
C24_DecorationsLeaveBoard ==
    (last.op = "token" /\ decorative(last.token)) =>
        /\ last.result = "Ok"
        /\ last.move = NoMove
        /\ board = pre

\* a move number has been applied after Black's first move: it is still White's turn
C24_Witness ==
    /\ last.op = "token"
    /\ last.token = <<"1", "2", ".">>
    /\ last.result = "Ok"
    /\ plies = 2
    /\ board.side = "White"
    /\ board = pre

\* the king and the rook of a castling right stand on their home squares
at_home(b, color, kingside) ==
    LET rank == IF color = "White" THEN 0 ELSE 7
    IN  /\ piece_at(b, idx(4, rank)) = Pc("King", color)
        /\ piece_at(b, idx(IF kingside THEN 7 ELSE 0, rank)) = Pc("Rook", color)

\* C25: in every position reached from the start by generated legal moves a set
\* castling right has its king on the e-file home square and its rook in its corner
\* (castle_wk: e1 and h1, castle_wq: e1 and a1, castle_bk: e8 and h8, castle_bq: e8
\* and a8), so that no generated castling move finds the king or rook square empty
\* when it is applied.
C25_CastlingRightsAtHome ==
    (legal_play /\ status = "running") =>
        /\ board.castle_wk => at_home(board, "White", TRUE)
        /\ board.castle_wq => at_home(board, "White", FALSE)
        /\ board.castle_bk => at_home(board, "Black", TRUE)
        /\ board.castle_bq => at_home(board, "Black", FALSE)
        /\ \A moves \in {generate_legal_moves(board)} :
               \A k \in 1 .. Len(moves) :
                   (moves[k].is_castle_kingside \/ moves[k].is_castle_queenside) =>
                       ~make_move_panics(board, moves[k])

\* in a game of generated legal moves White's bishop has taken the rook on h8: Black
\* has lost the kingside right and keeps the queenside right
C25_Witness ==
    /\ legal_play
    /\ applied
    /\ last.move.to = idx(7, 7)
    /\ pre.castle_bk
    /\ piece_at(pre, idx(7, 7)) = Pc("Rook", "Black")
    /\ piece_at(board, idx(7, 7)) = Pc("Bishop", "White")
    /\ ~board.castle_bk
    /\ board.castle_bq

\* in a game of generated legal moves White has castled kingside
C25_Castled ==
    /\ legal_play
    /\ applied
    /\ last.move.is_castle_kingside
    /\ piece_at(board, idx(6, 0)) = Pc("King", "White")
    /\ piece_at(board, idx(5, 0)) = Pc("Rook", "White")

\* the squares where a king of the colour stands
kings(b, color) == {i \in Squares : piece_at(b, i) = Pc("King", color)}

\* some piece of the colour attacks the square
attacked_by(b, square, color) ==
    \E i \in Squares :
        /\ piece_at(b, i) # None
        /\ piece_at(b, i).color = color
        /\ can_attack(b, i, square)

\* C26: in every position reached from the start by generated legal moves each
\* colour has exactly one king, the king of the side that just moved is not attacked,
\* and no generated legal move captures a king.
C26_KingsStayAndAreSafe ==
    (legal_play /\ status = "running") =>
        /\ Cardinality(kings(board, "White")) = 1
        /\ Cardinality(kings(board, "Black")) = 1
        /\ \A k \in kings(board, other(board.side)) : ~attacked_by(board, k, board.side)
        /\ \A moves \in {generate_legal_moves(board)} :
               \A j \in 1 .. Len(moves) :
                   /\ piece_at(board, moves[j].to).kind # "King"
                   /\ \A t \in {make_move(board, moves[j])} :
                          /\ Cardinality(kings(t, "White")) = 1
                          /\ Cardinality(kings(t, "Black")) = 1

\* in a game of generated legal moves the side to move, in check, has answered with
\* a move that leaves its king unattacked
C26_Witness ==
    /\ legal_play
    /\ applied
    /\ \E k \in kings(pre, pre.side) : attacked_by(pre, k, other(pre.side))
    /\ \A k \in kings(board, pre.side) : ~attacked_by(board, k, board.side)
    /\ Cardinality(kings(board, pre.side)) = 1

\* C27: for every position with a legal move and every timeout the move returned by
\* find_best_move is one of the generated legal moves of the root position, and when
\* no depth completes before the deadline it is the first move in generation order.
C27_ReturnsGeneratedMove ==
    answer.ran =>
        \A moves \in {generate_legal_moves(board)} :
            moves # <<>> =>
                /\ answer.some
                /\ \E k \in 1 .. Len(moves) : moves[k] = answer.move
                /\ answer.completed = 0 => answer.move = moves[1]

\* the deadline passed while depth 1 was being searched, after the root move that
\* depth 1 would have returned was scored: the first legal move is returned
C27_Witness ==
    /\ answer.ran
    /\ answer.budget > 0
    /\ answer.completed = 0
    /\ answer.some
    /\ \A moves \in {generate_legal_moves(board)} :
           /\ answer.move = moves[1]
           /\ \A best \in {search_at_depth(board, 1, Unlimited).move} :
                  \E k \in 2 .. Len(moves) :
                      /\ best = moves[k]
                      /\ answer.budget >= 2 * k

\* the first legal root move whose position, searched depth - 1 plies deep, has the
\* value that is best for the side to move
first_best(b, depth) ==
    LET pick(moves) ==
            LET value == [k \in 1 .. Len(moves) |->
                             side_value(make_move(b, moves[k]), depth - 1)]
                best == IF b.side = "White"
                        THEN Greatest({value[k] : k \in 1 .. Len(moves)})
                        ELSE Least({value[k] : k \in 1 .. Len(moves)})
                first == CHOOSE k \in 1 .. Len(moves) :
                             /\ value[k] = best
                             /\ \A j \in 1 .. k - 1 : value[j] # best
            IN  moves[first]
    IN  pick(generate_legal_moves(b))

\* C28: when search_at_depth completes at depth d, the move it returns attains the
\* best depth-(d-1) minimax value over all legal root moves, the maximum with White
\* to move and the minimum with Black to move, and it is the first such move in
\* generation order; the result is a function of the position and d alone, whatever
\* time was left.
C28_FirstBestRootMove ==
    /\ search_position =>
           \A moves \in {generate_legal_moves(board)} :
               moves # <<>> =>
                   \A depth \in 1 .. (IF Len(moves) <= MaxWidth THEN 2 ELSE 1) :
                       \A r \in {search_at_depth(board, depth, Unlimited)} :
                           /\ r.some
                           /\ r.move = first_best(board, depth)
    /\ (answer.ran /\ answer.completed >= 1) =>
           answer.move = first_best(board, answer.completed)

\* the search, stopped after depth 1, returned a move that is not the first legal
\* move although another root move has the same value
C28_Witness ==
    /\ answer.ran
    /\ answer.completed = 1
    /\ \A moves \in {generate_legal_moves(board)} :
           \E k \in 2 .. Len(moves) :
               /\ answer.move = moves[k]
               /\ \E j \in k + 1 .. Len(moves) :
                      Board_evaluate(make_move(board, moves[j]))
                          = Board_evaluate(make_move(board, moves[k]))

\* the square directly beyond the en-passant target, where the pawn that skipped the
\* target stands; mover is the side that made the double step
beyond(target, mover) == IF mover = "White" THEN target + 8 ELSE target - 8

\* after is before with an en-passant capture made: the capturing pawn stands on the
\* target, its square and the square of the pawn beyond the target are empty, every
\* other square is unchanged and one piece less is on the board
en_passant_made(before, m, after) ==
    LET taken == beyond(m.to, other(before.side))
    IN  /\ m.to = before.ep_square
        /\ piece_at(before, m.from) = Pc("Pawn", before.side)
        /\ piece_at(before, taken) = Pc("Pawn", other(before.side))
        /\ piece_at(after, m.to) = Pc("Pawn", before.side)
        /\ piece_at(after, m.from) = None
        /\ piece_at(after, taken) = None
        /\ \A i \in Squares \ {m.from, m.to, taken} :
               piece_at(after, i) = piece_at(before, i)
        /\ Cardinality({i \in Squares : piece_at(after, i) # None})
               = Cardinality({i \in Squares : piece_at(before, i) # None}) - 1

\* C29: in every position reached from the start by generated legal moves a set
\* en-passant target is an empty square on rank 3 with Black to move or on rank 6
\* with White to move, and a pawn of the side that just moved stands directly beyond
\* it; an en-passant capture puts the capturing pawn on the target, empties the
\* square of the pawn beyond it and takes exactly one piece off the board.
C29_EnPassantTargetAndCapture ==
    (legal_play /\ status = "running") =>
        /\ board.ep_square # NoSq =>
               /\ piece_at(board, board.ep_square) = None
               /\ rank_of(board.ep_square) = (IF board.side = "Black" THEN 2 ELSE 5)
               /\ piece_at(board, beyond(board.ep_square, other(board.side)))
                      = Pc("Pawn", other(board.side))
        /\ (applied /\ last.move.is_en_passant) =>
               en_passant_made(pre, last.move, board)
        /\ \A moves \in {generate_legal_moves(board)} :
               \A k \in 1 .. Len(moves) :
                   moves[k].is_en_passant =>
                       en_passant_made(board, moves[k], make_move(board, moves[k]))

\* in a game of generated legal moves White's pawn on e5 has taken the pawn that
\* stepped from d7 to d5 en passant and stands on d6
C29_Witness ==
    /\ legal_play
    /\ applied
    /\ last.move.is_en_passant
    /\ pre.ep_square = idx(3, 5)
    /\ last.move.to = idx(3, 5)
    /\ piece_at(board, idx(3, 5)) = Pc("Pawn", "White")
    /\ piece_at(board, idx(3, 4)) = None
    /\ piece_at(pre, idx(3, 4)) = Pc("Pawn", "Black")

\* C30: castling rights are monotone: over any sequence of applied moves, generated
\* legal moves or the moves of arbitrary tokens, a castling right that is false
\* never becomes true again.
C30_RightsNeverReturn ==
    [][/\ board'.castle_wk => board.castle_wk
       /\ board'.castle_wq => board.castle_wq
       /\ board'.castle_bk => board.castle_bk
       /\ board'.castle_bq => board.castle_bq]_vars

\* both kings have left their home squares and come back: kings and rooks are at
\* home and no castling right is set
C30_Witness ==
    /\ applied
    /\ at_home(board, "White", TRUE)
    /\ at_home(board, "White", FALSE)
    /\ at_home(board, "Black", TRUE)
    /\ at_home(board, "Black", FALSE)
    /\ ~board.castle_wk
    /\ ~board.castle_wq
    /\ ~board.castle_bk
    /\ ~board.castle_bq

====
